---- MODULE Spec2Model ----
(***************************************************************************)
(* A model of the streaming engine of aisdk-rs:                            *)
(*   - the establishment retry loop of ClaudeCode::stream_text and         *)
(*     Codex::stream_text, and the single attempt of Google::stream_text;  *)
(*   - the block accumulator of ClaudeCode::stream_text (the closure       *)
(*     given to scan over the vendor event stream);                        *)
(*   - the Codex stream: the task spawned by Codex::send_and_stream that   *)
(*     cuts the response bytes into frames and sends their events over a   *)
(*     channel, and the map of Codex::stream_text on the receiving side;   *)
(*   - the Google stream: the scan of Google::send_and_stream over the     *)
(*     parsed events and the map of Google::stream_text;                   *)
(*   - the decoders of one frame's data: parse_stream_sse of Codex and of  *)
(*     Google and the decode of the Codex producer;                        *)
(*   - the whole call of send_and_stream of Codex and of Google inside     *)
(*     stream_text, from the request to the stream it hands out;           *)
(*   - the UI stream of StreamTextResponse::into_vercel_ui_stream;         *)
(*   - the builders of Codex and ClaudeCode, the options the provider      *)
(*     stores, and Codex::generate_text;                                   *)
(*   - two concurrent ClaudeCode::stream_text calls and their streams;     *)
(*   - Codex response bodies whose lines end in CRLF.                      *)
(***************************************************************************)
EXTENDS Integers, Sequences, FiniteSets, TLC

VARIABLES
    provider,     \* which adapter this provider value is
    pc,           \* position inside stream_text: "idle", "loop", "sleep"
    retry_count,  \* stream_text's local retry_count
    wait_time,    \* stream_text's local wait_time, in seconds
    log,          \* what the current stream_text call did: attempts and sleeps
    result,       \* what the last call on the provider returned
    calls,        \* number of stream_text calls made on this provider
    content_blocks, \* StreamState.content_blocks: index -> AccumulatedBlock
    usage,          \* StreamState.usage
    stream,         \* the chunk stream: "open" or "panicked"
    last_ev,        \* the vendor event the scan closure was last given
    last_out,       \* what the closure returned for it
    nev,            \* number of events given to the closure so far
    hist,           \* history: per index, the kind last opened and what it received
    wire,           \* the input: the pieces of the Codex response body, the events of
                    \* the Google event source, or the payloads given to the decoders
    pos,            \* how many elements of wire have been read
    buffer,         \* the producer's local buffer
    ppc,            \* the producer task: "read", "drain", "done"; "none" without one
    chan,           \* the items in the unbounded channel
    rx,             \* the caller's stream: "open", "ended", "dropped"
    emitted,        \* history: the items the producer has sent, in order
    received,       \* history: the items the consumer has received, in order
    delivered,      \* history: what the map gave the caller for each of them
    after_drop,     \* history: chunks read and sends attempted since the drop
    options,        \* the VercelUIStreamOptions given to into_vercel_ui_stream
    message_id,     \* into_vercel_ui_stream's message_id
    ui_stream,      \* history: the items the UI stream has yielded, in order
    builder,        \* the provider builder: its options and settings
    lm_options,     \* the options stored in the provider (Codex::lm_options,
                    \* ClaudeCode::options)
    requests,       \* history: the bodies of the requests that were sent
    streams         \* two concurrent stream_text calls: per call its locals, the
                    \* state of its scan, the events given to it and what it returned

retryVars == <<provider, pc, retry_count, wait_time, log, result, calls>>

accVars == <<content_blocks, usage, stream, last_ev, last_out, nev, hist>>

codexVars == <<wire, pos, buffer, ppc, chan, rx, emitted, received, delivered, after_drop>>

uiVars == <<options, message_id, ui_stream>>

buildVars == <<builder, lm_options, requests>>

pairVars == <<streams>>

vars == <<retryVars, accVars, codexVars, uiVars, buildVars, pairVars>>

----------------------------------------------------------------------------
(* Bounds of the model. *)

MaxCalls == 2

MaxEvents == 5

----------------------------------------------------------------------------
(* Establishment: send_and_stream and the retry loop around it. *)

max_retries == 5

TOO_MANY_REQUESTS == 429

Providers == {"ClaudeCode", "Codex", "Google"}

Some(s) == [some |-> TRUE, code |-> s]

None == [some |-> FALSE, code |-> 0]

\* What the HTTP handshake can do: a response with a status, or no response.
HttpOutcomes ==
    {[resp |-> TRUE, status |-> s] : s \in {200, 429, 500}}
        \cup {[resp |-> FALSE, status |-> 0]}

is_success(s) == s >= 200 /\ s <= 299

\* Ok(stream): the stream opened by attempt n; head_err says whether the first
\* item the stream yields is the handshake's failure.
Ok(n, headErr) == [ok |-> TRUE, at |-> n, status_code |-> None, head_err |-> headErr]

Err(st, n) == [ok |-> FALSE, at |-> n, status_code |-> st, head_err |-> FALSE]

NoResult == [ok |-> FALSE, at |-> 0, status_code |-> None, head_err |-> FALSE]

\* Codex::send_and_stream up to the creation of the channel: a failed send is
\* an error with the status reqwest attaches (none for a transport failure), a
\* non-2xx response is an error carrying the status.
CodexSendAndStream(http, n) ==
    IF ~http.resp THEN Err(None, n)
    ELSE IF ~is_success(http.status) THEN Err(Some(http.status), n)
    ELSE Ok(n, FALSE)

\* Variant: the handshake is awaited and a non-2xx status returned as an error.
GoogleSendAndStream_Eager(http, n) ==
    IF ~http.resp THEN Err(None, n)
    ELSE IF ~is_success(http.status) THEN Err(Some(http.status), n)
    ELSE Ok(n, FALSE)

\* Google::send_and_stream: eventsource() opens lazily, so the call returns a
\* stream whatever the handshake does; a failed handshake is the stream's
\* first item (parse_stream_sse maps it to Err, and the scan ends after it).
GoogleSendAndStream(http, n) ==
    Ok(n, ~(http.resp /\ is_success(http.status)))

\* ClaudeCode::send_and_stream is the trait's default method; stream_text
\* handles whatever Result it returns.
ClaudeCodeResults(n) ==
    {Ok(n, FALSE), Err(None, n)} \cup {Err(Some(s), n) : s \in {429, 500}}

\* Variant: one retry more.
RetryGuard_Le(res, rc) ==
    /\ ~res.ok
    /\ res.status_code.some
    /\ res.status_code.code = TOO_MANY_REQUESTS
    /\ rc <= max_retries

\* Variant: any status code is retried.
RetryGuard_AnyStatus(res, rc) ==
    /\ ~res.ok
    /\ res.status_code.some
    /\ rc < max_retries

\* The guard of the retry arm of the loop's match:
\* Err(ApiError { status_code: Some(status), .. })
\*     if status == TOO_MANY_REQUESTS && retry_count < max_retries
RetryGuard(res, rc) ==
    /\ ~res.ok
    /\ res.status_code.some
    /\ res.status_code.code = TOO_MANY_REQUESTS
    /\ rc < max_retries

\* Variant: the wait grows by one second.
NextWait_Linear(w) == w + 1

\* wait_time *= 2
NextWait(w) == w * 2

\* Which adapters wrap send_and_stream in the retry loop.
UsesRetryLoop(p) == p \in {"ClaudeCode", "Codex"}

AttemptRec(http, res) == [t |-> "attempt", http |-> http, r |-> res, d |-> 0]

SleepRec(d) == [t |-> "sleep", http |-> [resp |-> FALSE, status |-> 0], r |-> NoResult, d |-> d]

NumAttempts == Cardinality({j \in DOMAIN log : log[j].t = "attempt"})

Sleeps == SelectSeq(log, LAMBDA e : e.t = "sleep")

\* The results send_and_stream can return to attempt n of adapter p, each with
\* the handshake outcome behind it.
Establish(p, n) ==
    CASE p = "Codex" ->
            {AttemptRec(h, CodexSendAndStream(h, n)) : h \in HttpOutcomes}
      [] p = "Google" ->
            {AttemptRec(h, GoogleSendAndStream(h, n)) : h \in HttpOutcomes}
      [] OTHER ->
            {AttemptRec([resp |-> FALSE, status |-> 0], r) : r \in ClaudeCodeResults(n)}

----------------------------------------------------------------------------
(* The block accumulator of ClaudeCode::stream_text: vendor events, blocks, *)
(* chunks. A string is the sequence of its pieces.                          *)

Indices == {0, 1}

BlockKinds == {"Text", "Thinking", "RedactedThinking", "ToolUse"}

DeltaKinds == {"TextDelta", "ThinkingDelta", "SignatureDelta", "ToolUseDelta"}

TextPayloads == {<<"H", "e", "l">>, <<"l", "o">>}

ThinkingPayloads == {<<"h", "m">>}

SignaturePayloads == {<<"s", "g">>}

\* partial_json fragments: pieces of a JSON text, cut at token boundaries.
JsonFragments == {<<"{", "\"a\":1">>, <<"}">>, <<" ">>}

RedactedData == <<"r", "d">>

UsageValues == {7, 9}

NoSome == [some |-> FALSE, v |-> <<>>]

SomeOf(x) == [some |-> TRUE, v |-> x]

ToolId(i) == IF i = 0 THEN "t1" ELSE "t2"

ToolName(i) == IF i = 0 THEN "f" ELSE "g"

\* AnthropicStreamEvent
Ev(t, i, k, p) == [t |-> t, index |-> i, kind |-> k, payload |-> p]

NoEvent == Ev("None", 0, "", <<>>)

PayloadsOf(dk) ==
    CASE dk = "TextDelta" -> TextPayloads
      [] dk = "ThinkingDelta" -> ThinkingPayloads
      [] dk = "SignatureDelta" -> SignaturePayloads
      [] OTHER -> JsonFragments

StartEvents ==
    {Ev("ContentBlockStart", i, k, IF k = "RedactedThinking" THEN RedactedData ELSE <<>>)
        : i \in Indices, k \in BlockKinds}

DeltaEvents ==
    UNION {{Ev("ContentBlockDelta", i, dk, p) : i \in Indices, p \in PayloadsOf(dk)}
            : dk \in DeltaKinds}

StopEvents == {Ev("ContentBlockStop", i, "", <<>>) : i \in Indices}

MessageDeltaEvents == {Ev("MessageDelta", 0, "", <<u>>) : u \in UsageValues}

\* AccumulatedBlock
Block(k, text, sig, i) ==
    [kind |-> k, text |-> text, signature |-> sig,
     id |-> IF k = "ToolUse" THEN ToolId(i) ELSE "",
     name |-> IF k = "ToolUse" THEN ToolName(i) ELSE ""]

\* LanguageModelStreamChunk::Delta(LanguageModelStreamChunkType::ty(payload))
Delta(ty, payload) ==
    [c |-> "Delta", type |-> ty, payload |-> payload]

\* LanguageModelStreamChunk::Done(AssistantMessage { content, usage })
Done(content, u) ==
    [c |-> "Done", type |-> "Done", payload |-> <<>>, content |-> content, usage |-> u]

\* LanguageModelResponseContentType
Content(k, text, sig, id, name, input) ==
    [kind |-> k, text |-> text, signature |-> sig, id |-> id, name |-> name,
     input |-> input]

\* The closure's `unsupported` helper.
unsupported(event) ==
    <<Delta("NotSupported", <<"AnthropicStreamEvent::", event>>)>>

\* The closure's return value: Some(Ok(chunks)), Some(Err(e)), or a panic.
RetOk(chunks) == [res |-> "ok", chunks |-> chunks]

RetErr == [res |-> "err", chunks |-> <<>>]

RetPanic == [res |-> "panic", chunks |-> <<>>]

RetNone == [res |-> "none", chunks |-> <<>>]

\* str::trim().is_empty()
IsBlank(s) == \A j \in DOMAIN s : s[j] = " "

\* serde_json::from_str::<Value> on the pieces used here: whitespace between
\* tokens is skipped, and the text must be one complete object.
JsonNone == [ok |-> FALSE, value |-> {}]

ParseJson(s) ==
    LET toks == SelectSeq(s, LAMBDA x : x # " ") IN
    IF toks = <<"{", "}">> THEN [ok |-> TRUE, value |-> {}]
    ELSE IF toks = <<"{", "\"a\":1", "}">> THEN [ok |-> TRUE, value |-> {<<"a", 1>>}]
    ELSE JsonNone

\* usage.clone().map(|u| u.into())
UsageInto(u) == IF u.some THEN SomeOf(<<"tokens", u.v>>) ELSE NoSome

\* No block at this index (the map has no such key).
Absent == [kind |-> "Absent", text |-> <<>>, signature |-> NoSome, id |-> "", name |-> ""]

Opened == {i \in Indices : content_blocks[i].kind # "Absent"}

\* Variant: the block at the index is kept, only its kind is changed.
StartBlock_KeepsContent(ev) ==
    IF ev.index \in Opened
    THEN [content_blocks[ev.index] EXCEPT !.kind = ev.kind]
    ELSE Block(ev.kind, IF ev.kind = "RedactedThinking" THEN ev.payload ELSE <<>>,
               NoSome, ev.index)

\* state.content_blocks.insert(index, ..) of the ContentBlockStart arm.
StartBlock(ev) ==
    CASE ev.kind = "Text" -> Block("Text", <<>>, NoSome, ev.index)
      [] ev.kind = "Thinking" -> Block("Thinking", <<>>, NoSome, ev.index)
      [] ev.kind = "RedactedThinking" -> Block("RedactedThinking", ev.payload, NoSome, ev.index)
      [] OTHER -> Block("ToolUse", <<>>, NoSome, ev.index)

\* Variant: a signature is appended to the thinking text.
ApplyDelta_SignatureAppends(b, ev) ==
    CASE b.kind = "Text" /\ ev.kind = "TextDelta" ->
            [block |-> [b EXCEPT !.text = @ \o ev.payload],
             ret |-> RetOk(<<Delta("Text", ev.payload)>>)]
      [] b.kind = "Thinking" /\ ev.kind = "ThinkingDelta" ->
            [block |-> [b EXCEPT !.text = @ \o ev.payload],
             ret |-> RetOk(<<Delta("Text", ev.payload)>>)]
      [] b.kind = "Thinking" /\ ev.kind = "SignatureDelta" ->
            [block |-> [b EXCEPT !.text = @ \o ev.payload],
             ret |-> RetOk(unsupported("SignatureDelta"))]
      [] b.kind = "ToolUse" /\ ev.kind = "ToolUseDelta" ->
            [block |-> [b EXCEPT !.text = @ \o ev.payload],
             ret |-> RetOk(<<Delta("ToolCall", ev.payload)>>)]
      [] OTHER ->
            [block |-> b, ret |-> RetOk(unsupported("ContentBlockDelta"))]

\* Variant: text and JSON fragments are put in front of what was accumulated.
ApplyDelta_Prepend(b, ev) ==
    CASE b.kind = "Text" /\ ev.kind = "TextDelta" ->
            [block |-> [b EXCEPT !.text = ev.payload \o @],
             ret |-> RetOk(<<Delta("Text", ev.payload)>>)]
      [] b.kind = "Thinking" /\ ev.kind = "ThinkingDelta" ->
            [block |-> [b EXCEPT !.text = @ \o ev.payload],
             ret |-> RetOk(<<Delta("Text", ev.payload)>>)]
      [] b.kind = "Thinking" /\ ev.kind = "SignatureDelta" ->
            [block |-> [b EXCEPT !.signature = SomeOf(ev.payload)],
             ret |-> RetOk(unsupported("SignatureDelta"))]
      [] b.kind = "ToolUse" /\ ev.kind = "ToolUseDelta" ->
            [block |-> [b EXCEPT !.text = ev.payload \o @],
             ret |-> RetOk(<<Delta("ToolCall", ev.payload)>>)]
      [] OTHER ->
            [block |-> b, ret |-> RetOk(unsupported("ContentBlockDelta"))]

\* The match (block, delta) of the ContentBlockDelta arm: the block after it
\* and the closure's return value.
ApplyDelta(b, ev) ==
    CASE b.kind = "Text" /\ ev.kind = "TextDelta" ->
            [block |-> [b EXCEPT !.text = @ \o ev.payload],
             ret |-> RetOk(<<Delta("Text", ev.payload)>>)]
      [] b.kind = "Thinking" /\ ev.kind = "ThinkingDelta" ->
            [block |-> [b EXCEPT !.text = @ \o ev.payload],
             ret |-> RetOk(<<Delta("Text", ev.payload)>>)]
      [] b.kind = "Thinking" /\ ev.kind = "SignatureDelta" ->
            [block |-> [b EXCEPT !.signature = SomeOf(ev.payload)],
             ret |-> RetOk(unsupported("SignatureDelta"))]
      [] b.kind = "ToolUse" /\ ev.kind = "ToolUseDelta" ->
            [block |-> [b EXCEPT !.text = @ \o ev.payload],
             ret |-> RetOk(<<Delta("ToolCall", ev.payload)>>)]
      [] OTHER ->
            [block |-> b, ret |-> RetOk(unsupported("ContentBlockDelta"))]

\* Variant: a tool call is collected whether or not its JSON parses.
Finalize_ToolAlways(b) ==
    CASE b.kind = "Text" ->
            Content("Text", b.text, NoSome, "", "", JsonNone)
      [] b.kind = "Thinking" ->
            Content("Reasoning", b.text, b.signature, "", "", JsonNone)
      [] b.kind = "RedactedThinking" ->
            Content("Reasoning", b.text, NoSome, "", "", JsonNone)
      [] OTHER ->
            Content("ToolCall", <<>>, NoSome, b.id, b.name, ParseJson(b.text))

\* Variant: a Thinking block is collected as Text.
Finalize_ThinkingAsText(b) ==
    CASE b.kind = "Text" ->
            Content("Text", b.text, NoSome, "", "", JsonNone)
      [] b.kind = "Thinking" ->
            Content("Text", b.text, b.signature, "", "", JsonNone)
      [] b.kind = "RedactedThinking" ->
            Content("Reasoning", b.text, NoSome, "", "", JsonNone)
      [] OTHER ->
            LET json_str == IF IsBlank(b.text) THEN <<"{", "}">> ELSE b.text
                input == ParseJson(json_str)
            IN  IF input.ok
                THEN Content("ToolCall", <<>>, NoSome, b.id, b.name, input)
                ELSE Content("NotSupported", <<"Invalid tool json: ">> \o b.text,
                             NoSome, "", "", JsonNone)

\* Variant: a blank accumulated string is parsed as it is.
Finalize_NoBlankDefault(b) ==
    CASE b.kind = "Text" ->
            Content("Text", b.text, NoSome, "", "", JsonNone)
      [] b.kind = "Thinking" ->
            Content("Reasoning", b.text, b.signature, "", "", JsonNone)
      [] b.kind = "RedactedThinking" ->
            Content("Reasoning", b.text, NoSome, "", "", JsonNone)
      [] OTHER ->
            LET input == ParseJson(b.text)
            IN  IF input.ok
                THEN Content("ToolCall", <<>>, NoSome, b.id, b.name, input)
                ELSE Content("NotSupported", <<"Invalid tool json: ">> \o b.text,
                             NoSome, "", "", JsonNone)

\* The match on one block of the MessageStop arm: the content item collected.
Finalize(b) ==
    CASE b.kind = "Text" ->
            Content("Text", b.text, NoSome, "", "", JsonNone)
      [] b.kind = "Thinking" ->
            Content("Reasoning", b.text, b.signature, "", "", JsonNone)
      [] b.kind = "RedactedThinking" ->
            Content("Reasoning", b.text, NoSome, "", "", JsonNone)
      [] OTHER ->
            LET json_str == IF IsBlank(b.text) THEN <<"{", "}">> ELSE b.text
                input == ParseJson(json_str)
            IN  IF input.ok
                THEN Content("ToolCall", <<>>, NoSome, b.id, b.name, input)
                ELSE Content("NotSupported", <<"Invalid tool json: ">> \o b.text,
                             NoSome, "", "", JsonNone)

\* The orders in which HashMap::values() can visit the blocks.
Orders(S) ==
    {o \in [1..Cardinality(S) -> S] : \A a, b \in DOMAIN o : a # b => o[a] # o[b]}

\* Variant: the usage is given to the first Done chunk only.
Collected_UsageOnFirst(blocks, u, order) ==
    [k \in DOMAIN order |->
        Done(Finalize(blocks[order[k]]), IF k = 1 THEN UsageInto(u) ELSE NoSome)]

\* collected.into_iter().map(Done { content, usage }).collect()
Collected(blocks, u, order) ==
    [k \in DOMAIN order |-> Done(Finalize(blocks[order[k]]), UsageInto(u))]

\* History kept for the claims: per index, the kind the block there was last
\* opened with, the payloads of the deltas of that kind it has received since,
\* the last signature it received, and the text of the block that the last
\* block-start found at the index (if it found one).
NoHist == [kind |-> "Absent", recv |-> <<>>, sig |-> NoSome, prev |-> NoSome]

DeltaKindOf(k) ==
    CASE k = "Text" -> "TextDelta"
      [] k = "Thinking" -> "ThinkingDelta"
      [] k = "ToolUse" -> "ToolUseDelta"
      [] OTHER -> "none"

HistAfterDelta(h, ev) ==
    IF ev.kind = DeltaKindOf(h.kind) THEN [h EXCEPT !.recv = @ \o ev.payload]
    ELSE IF h.kind = "Thinking" /\ ev.kind = "SignatureDelta" THEN [h EXCEPT !.sig = SomeOf(ev.payload)]
    ELSE h

InitStreamState ==
    /\ content_blocks = [i \in Indices |-> Absent]
    /\ usage = NoSome
    /\ stream = "open"
    /\ last_ev = NoEvent
    /\ last_out = RetNone
    /\ nev = 0
    /\ hist = [i \in Indices |-> NoHist]

\* No UI stream has been made.
InitNoUI ==
    /\ options = "none"
    /\ message_id = "none"
    /\ ui_stream = <<>>

\* The two concurrent calls.
StreamIds == {1, 2}

\* StreamState::default()
DefaultState == [content_blocks |-> [i \in Indices |-> Absent], usage |-> NoSome]

\* A stream_text call at the top of its loop: its locals, the results of its
\* attempts, and, for the stream it returns, the state of the scan, the
\* events given to the closure and what the closure returned for each.
Called ==
    [pc |-> "loop", retry_count |-> 0, wait_time |-> 1, attempts |-> <<>>,
     state |-> DefaultState, events |-> <<>>, chunks |-> <<>>]

\* No pair of calls is looked at.
InitNoPair == streams = [s \in StreamIds |-> [Called EXCEPT !.pc = "none"]]

\* DynamicModel::MODEL_NAME, the model name a builder starts with; the
\* constant is defined outside of these sources.
MODEL_NAME == "dynamic"

\* The builder of a provider: state is "none" when the provider was made by a
\* constructor, "open" while the builder is being set, then "built" or
\* "failed"; model is its options.model, api_key and base_url its settings.
Builder(state, model, api_key, base_url) ==
    [state |-> state, model |-> model, api_key |-> api_key, base_url |-> base_url]

\* The options stored in a provider; built is FALSE while they are not
\* followed.
Options(built, model, st, prompt) ==
    [built |-> built, model |-> model, stream |-> st, prompt |-> prompt]

\* The provider was made by a constructor: its builder and the options it
\* stores are not followed, and no request has been sent.
InitNoBuild ==
    /\ builder = Builder("none", MODEL_NAME, <<>>, "")
    /\ lm_options = Options(FALSE, MODEL_NAME, NoSome, "")
    /\ requests = <<>>

\* The LanguageModelOptions a caller passes to stream_text or generate_text.
CallOptions == {"p1", "p2"}

\* stream_text stores the caller's options with the model of the provider and
\* stream = Some(true).
Stored(l, o) ==
    IF l.built THEN Options(TRUE, l.model, SomeOf(TRUE), o) ELSE l

\* body(): the stored options, serialized.
Body(l) == [model |-> l.model, stream |-> l.stream, prompt |-> l.prompt]

\* The request of one attempt is sent with body().
Sent(rs, l) == IF l.built THEN Append(rs, Body(l)) ELSE rs

\* No Codex stream has been established.
InitNoStream ==
    /\ wire = <<>>
    /\ pos = 0
    /\ buffer = <<>>
    /\ ppc = "done"
    /\ chan = <<>>
    /\ rx = "dropped"
    /\ emitted = <<>>
    /\ received = <<>>
    /\ delivered = <<>>
    /\ after_drop = [reads |-> 0, sends |-> 0]

InitRetry ==
    /\ provider \in Providers
    /\ pc = "idle"
    /\ retry_count = 0
    /\ wait_time = 1
    /\ log = <<>>
    /\ result = NoResult
    /\ calls = 0
    /\ InitStreamState
    /\ InitNoUI
    /\ InitNoPair
    /\ InitNoBuild
    /\ InitNoStream

\* stream_text is called: the options are stored and the loop's locals set.
StreamText ==
    /\ pc = "idle"
    /\ builder.state \in {"none", "built"}
    /\ calls < MaxCalls
    /\ calls' = calls + 1
    /\ retry_count' = 0
    /\ wait_time' = 1
    /\ log' = <<>>
    /\ result' = NoResult
    /\ pc' = "loop"
    /\ \E o \in CallOptions : lm_options' = Stored(lm_options, o)
    /\ UNCHANGED <<provider, accVars, codexVars, uiVars, pairVars, builder, requests>>

\* One iteration of the loop: send_and_stream and the match on its result.
Attempt ==
    /\ pc = "loop"
    /\ UsesRetryLoop(provider)
    /\ \E rec \in Establish(provider, NumAttempts + 1) :
        /\ log' = Append(log, rec)
        /\ IF rec.r.ok
           THEN /\ result' = rec.r
                /\ pc' = "idle"
                /\ UNCHANGED retry_count
           ELSE IF RetryGuard(rec.r, retry_count)
           THEN /\ retry_count' = retry_count + 1
                /\ pc' = "sleep"
                /\ UNCHANGED result
           ELSE /\ result' = rec.r
                /\ pc' = "idle"
                /\ UNCHANGED retry_count
    /\ requests' = Sent(requests, lm_options)
    /\ UNCHANGED <<provider, wait_time, calls>>
    /\ UNCHANGED <<accVars, codexVars, uiVars, pairVars, builder, lm_options>>

\* tokio::time::sleep(wait_time) completes; wait_time *= 2; continue.
Sleep ==
    /\ pc = "sleep"
    /\ log' = Append(log, SleepRec(wait_time))
    /\ wait_time' = NextWait(wait_time)
    /\ pc' = "loop"
    /\ UNCHANGED <<provider, retry_count, result, calls>>
    /\ UNCHANGED <<accVars, codexVars, uiVars, pairVars, buildVars>>

\* Google::stream_text: send_and_stream(..).await? and nothing around it.
AttemptOnce ==
    /\ pc = "loop"
    /\ ~UsesRetryLoop(provider)
    /\ \E rec \in Establish(provider, NumAttempts + 1) :
        /\ log' = Append(log, rec)
        /\ result' = rec.r
    /\ pc' = "idle"
    /\ UNCHANGED <<provider, retry_count, wait_time, calls>>
    /\ UNCHANGED <<accVars, codexVars, uiVars, pairVars, buildVars>>

NextRetry ==
    \/ StreamText
    \/ Attempt
    \/ Sleep
    \/ AttemptOnce

SpecRetry == InitRetry /\ [][NextRetry]_vars

----------------------------------------------------------------------------
(* The scan closure of ClaudeCode::stream_text, one action per match arm.   *)

InitAcc ==
    /\ provider = "ClaudeCode"
    /\ pc = "idle"
    /\ retry_count = 0
    /\ wait_time = 1
    /\ log = <<AttemptRec([resp |-> FALSE, status |-> 0], Ok(1, FALSE))>>
    /\ result = Ok(1, FALSE)
    /\ calls = 1
    /\ InitStreamState
    /\ InitNoUI
    /\ InitNoPair
    /\ InitNoBuild
    /\ InitNoStream

\* The closure is given the next item of the response stream.
Given(ev, ret) ==
    /\ stream = "open"
    /\ nev < MaxEvents
    /\ nev' = nev + 1
    /\ last_ev' = ev
    /\ last_out' = ret
    /\ UNCHANGED <<retryVars, codexVars, uiVars, pairVars, buildVars>>

OnMessageStart ==
    /\ Given(Ev("MessageStart", 0, "", <<>>), RetOk(<<Delta("Start", <<>>)>>))
    /\ UNCHANGED <<content_blocks, usage, stream, hist>>

OnContentBlockStart ==
    \E ev \in StartEvents :
        /\ Given(ev, RetOk(unsupported(<<"ContentBlockStart::", ev.kind>>)))
        /\ content_blocks' = [content_blocks EXCEPT ![ev.index] = StartBlock(ev)]
        /\ hist' = [hist EXCEPT ![ev.index] =
                        [NoHist EXCEPT !.kind = ev.kind,
                                       !.prev = IF ev.index \in Opened
                                                THEN SomeOf(content_blocks[ev.index].text)
                                                ELSE NoSome]]
        /\ UNCHANGED <<usage, stream>>

OnContentBlockDelta ==
    \E ev \in DeltaEvents :
        IF ev.index \in Opened
        THEN LET a == ApplyDelta(content_blocks[ev.index], ev) IN
            /\ Given(ev, a.ret)
            /\ content_blocks' = [content_blocks EXCEPT ![ev.index] = a.block]
            /\ hist' = [hist EXCEPT ![ev.index] = HistAfterDelta(@, ev)]
            /\ UNCHANGED <<usage, stream>>
        ELSE \* unreachable!(..): the closure panics and returns nothing
            /\ Given(ev, RetPanic)
            /\ stream' = "panicked"
            /\ UNCHANGED <<content_blocks, usage, hist>>

\* Variant: a block-stop finalizes the block it names and forgets it.
OnContentBlockStop_Finalizes ==
    \E ev \in StopEvents :
        /\ Given(ev, RetOk(IF ev.index \in Opened
                           THEN <<Done(Finalize(content_blocks[ev.index]), UsageInto(usage))>>
                           ELSE <<>>))
        /\ content_blocks' = [content_blocks EXCEPT ![ev.index] = Absent]
        /\ UNCHANGED <<usage, stream, hist>>

OnContentBlockStop ==
    \E ev \in StopEvents :
        /\ Given(ev, RetOk(unsupported("ContentBlockStop")))
        /\ UNCHANGED <<content_blocks, usage, stream, hist>>

OnMessageDelta ==
    \E ev \in MessageDeltaEvents :
        /\ Given(ev, RetOk(unsupported("MessageDelta")))
        /\ usage' = SomeOf(ev.payload[1])
        /\ UNCHANGED <<content_blocks, stream, hist>>

OnMessageStop ==
    \E order \in Orders(Opened) :
        /\ Given(Ev("MessageStop", 0, "", <<>>), RetOk(Collected(content_blocks, usage, order)))
        /\ UNCHANGED <<content_blocks, usage, stream, hist>>

OnError ==
    /\ Given(Ev("Error", 0, "", <<"overloaded_error", "busy">>),
             RetOk(<<Delta("Failed", <<"overloaded_error", ": ", "busy">>)>>))
    /\ UNCHANGED <<content_blocks, usage, stream, hist>>

OnNotSupported ==
    /\ Given(Ev("NotSupported", 0, "", <<"{\"type\":\"ping\"}">>),
             RetOk(<<Delta("NotSupported", <<"{\"type\":\"ping\"}">>)>>))
    /\ UNCHANGED <<content_blocks, usage, stream, hist>>

\* The response stream yields Err(e): the closure passes it on.
OnErr ==
    /\ Given(Ev("Err", 0, "", <<>>), RetErr)
    /\ UNCHANGED <<content_blocks, usage, stream, hist>>

NextAcc ==
    \/ OnMessageStart
    \/ OnContentBlockStart
    \/ OnContentBlockDelta
    \/ OnContentBlockStop
    \/ OnMessageDelta
    \/ OnMessageStop
    \/ OnError
    \/ OnNotSupported
    \/ OnErr

SpecAcc == InitAcc /\ [][NextAcc]_vars

----------------------------------------------------------------------------
(* Two stream_text calls, each on its own ClaudeCode value and in its own   *)
(* task, and the two streams they return, polled in any interleaving.       *)

MaxPairEvents == 3

MaxPairAttempts == 2

\* The events given to the streams of the pair.
PairEvents ==
    { Ev("ContentBlockStart", 0, "Text", <<>>),
      Ev("ContentBlockDelta", 0, "TextDelta", <<"H", "e", "l">>),
      Ev("MessageDelta", 0, "", <<7>>),
      Ev("MessageDelta", 0, "", <<9>>),
      Ev("MessageStop", 0, "", <<>>) }

OpenedIn(blocks) == {i \in Indices : blocks[i].kind # "Absent"}

\* The closure given to response.scan, applied to the state it is given and
\* one item of the response stream: the state after it and the value
\* returned; order is the walk of HashMap::values() at message-stop.
scan(state, ev, order) ==
    CASE ev.t = "MessageStart" ->
            [state |-> state, ret |-> RetOk(<<Delta("Start", <<>>)>>)]
      [] ev.t = "ContentBlockStart" ->
            [state |-> [state EXCEPT !.content_blocks[ev.index] = StartBlock(ev)],
             ret |-> RetOk(unsupported(<<"ContentBlockStart::", ev.kind>>))]
      [] ev.t = "ContentBlockDelta" ->
            IF ev.index \in OpenedIn(state.content_blocks)
            THEN LET a == ApplyDelta(state.content_blocks[ev.index], ev) IN
                 [state |-> [state EXCEPT !.content_blocks[ev.index] = a.block],
                  ret |-> a.ret]
            ELSE [state |-> state, ret |-> RetPanic]
      [] ev.t = "ContentBlockStop" ->
            [state |-> state, ret |-> RetOk(unsupported("ContentBlockStop"))]
      [] ev.t = "MessageDelta" ->
            [state |-> [state EXCEPT !.usage = SomeOf(ev.payload[1])],
             ret |-> RetOk(unsupported("MessageDelta"))]
      [] ev.t = "MessageStop" ->
            [state |-> state,
             ret |-> RetOk(Collected(state.content_blocks, state.usage, order))]
      [] ev.t = "Error" ->
            [state |-> state,
             ret |-> RetOk(<<Delta("Failed", <<ev.payload[1], ": ", ev.payload[2]>>)>>)]
      [] ev.t = "NotSupported" ->
            [state |-> state, ret |-> RetOk(<<Delta("NotSupported", ev.payload)>>)]
      [] OTHER -> [state |-> state, ret |-> RetErr]

\* The match on the Result of send_and_stream in the loop of call c.
AfterAttempt(c, r) ==
    IF r.ok
    THEN [c EXCEPT !.pc = "open", !.attempts = Append(@, r), !.state = DefaultState]
    ELSE IF RetryGuard(r, c.retry_count)
    THEN [c EXCEPT !.pc = "sleep", !.attempts = Append(@, r), !.retry_count = @ + 1]
    ELSE [c EXCEPT !.pc = "failed", !.attempts = Append(@, r)]

\* Variant: the state of the scan is one value shared by the streams.
StateOf_Shared(ss, s) == ss[1].state

\* The state the closure of stream s is given: the StreamState made by the
\* scan of that stream_text call.
StateOf(ss, s) == ss[s].state

\* The closure of call c has returned out for the event ev.
AfterGiven(c, ev, out) ==
    [c EXCEPT !.state = out.state,
              !.events = Append(@, ev),
              !.chunks = Append(@, out.ret),
              !.pc = IF out.ret.res = "panic" THEN "panicked" ELSE "open"]

InitPair ==
    /\ provider = "ClaudeCode"
    /\ pc = "idle"
    /\ retry_count = 0
    /\ wait_time = 1
    /\ log = <<>>
    /\ result = NoResult
    /\ calls = 0
    /\ InitStreamState
    /\ InitNoUI
    /\ InitNoBuild
    /\ InitNoStream
    /\ streams = [s \in StreamIds |-> Called]

\* One iteration of the loop of one of the calls.
PairAttempt ==
    \E s \in StreamIds :
        /\ streams[s].pc = "loop"
        /\ Len(streams[s].attempts) < MaxPairAttempts
        /\ \E r \in ClaudeCodeResults(Len(streams[s].attempts) + 1) :
                streams' = [streams EXCEPT ![s] = AfterAttempt(@, r)]
        /\ UNCHANGED <<retryVars, accVars, codexVars, uiVars, buildVars>>

\* The sleep of one of the calls completes.
PairSleep ==
    \E s \in StreamIds :
        /\ streams[s].pc = "sleep"
        /\ streams' = [streams EXCEPT ![s].pc = "loop",
                                       ![s].wait_time = NextWait(@)]
        /\ UNCHANGED <<retryVars, accVars, codexVars, uiVars, buildVars>>

\* One of the streams is polled and its closure is given the next event.
PairGiven ==
    \E s \in StreamIds :
        /\ streams[s].pc = "open"
        /\ Len(streams[s].events) < MaxPairEvents
        /\ \E ev \in PairEvents :
           \E order \in Orders(OpenedIn(StateOf(streams, s).content_blocks)) :
                streams' = [streams EXCEPT ![s] =
                                AfterGiven(@, ev, scan(StateOf(streams, s), ev, order))]
        /\ UNCHANGED <<retryVars, accVars, codexVars, uiVars, buildVars>>

NextPair ==
    \/ PairAttempt
    \/ PairSleep
    \/ PairGiven

SpecPair == InitPair /\ [][NextPair]_vars

----------------------------------------------------------------------------
(* The Codex stream. The response body is a sequence of pieces; a piece is  *)
(* one byte, or a run of ASCII bytes that nothing here cuts.                *)

MaxSegs == 2

\* The characters of a text delta: "C3" "A9" are the two bytes of the UTF-8
\* encoding of U+00E9, and U+FFFD is the replacement character.
TextChars == {"a", "U+00E9", "U+FFFD"}

\* Pieces of JSON text. open .. close enclose the delta string of a
\* response.output_text.delta event; error_plain is an error event without a
\* code; ping is valid JSON of no event's shape; bad is not JSON; head and
\* tail are the two halves of a completion event, cut between two members of
\* the object. The last three are responses of Google: one candidate
\* with a text part, one candidate with a text part and a finish reason, and
\* two candidates of which only the first has a finish reason.
Json ==
    [open |-> "{\"type\":\"response.output_text.delta\",\"delta\":\"",
     close |-> "\"}",
     completed |-> "{\"type\":\"response.completed\",\"response\":{..}}",
     error |-> "{\"type\":\"error\",\"code\":\"rate_limit\",\"message\":\"slow\"}",
     error_plain |-> "{\"type\":\"error\",\"message\":\"slow\"}",
     ping |-> "{\"type\":\"ping\"}",
     bad |-> "{oops",
     head |-> "{\"type\":\"response.completed\",",
     tail |-> "\"response\":{..}}",
     g_text |-> "{\"candidates\":[{\"content\":{\"parts\":[{\"text\":\"He\"}]}}]}",
     g_finish |-> "{\"candidates\":[{\"content\":{\"parts\":[{\"text\":\"y\"}]},\"finishReason\":\"STOP\"}]}",
     g_mixed |-> "{\"candidates\":[{\"content\":{\"parts\":[{\"text\":\"a\"}]},\"finishReason\":\"STOP\"},{\"content\":{\"parts\":[{\"text\":\"b\"}]}}]}"]

\* Frames the server can send, each ended by a blank line.
Segments ==
    { <<"data:", " ", Json.open, "a", Json.close, "\n", "\n">>,
      <<"data:", Json.open, "C3", "A9", Json.close, "\n", "\n">>,
      <<"data:", " ", "[DONE]", "\n", "\n">>,
      <<"data:", "\n", "\n">>,
      <<"data:", Json.completed, "\n", "\n">>,
      <<"data:", Json.error, "\n", "\n">>,
      <<"data:", Json.error_plain, "\n", "\n">>,
      <<"data:", Json.bad, "\n", "\n">> }

RECURSIVE Flatten(_)
Flatten(ss) == IF ss = <<>> THEN <<>> ELSE ss[1] \o Flatten(Tail(ss))

\* The response bodies considered: up to MaxSegs frames.
WireTexts == {Flatten(ss) : ss \in UNION {[1..n -> Segments] : n \in 0..MaxSegs}}

\* The helpers on strings are functions, so that each is applied to a value.
\* String::from_utf8_lossy(&chunk): a complete encoding becomes its
\* character, a byte of an incomplete one becomes U+FFFD.
from_utf8_lossy[c \in Seq(STRING)] ==
    IF c = <<>> THEN <<>>
    ELSE IF Len(c) >= 2 /\ c[1] = "C3" /\ c[2] = "A9"
    THEN <<"U+00E9">> \o from_utf8_lossy[SubSeq(c, 3, Len(c))]
    ELSE IF c[1] \in {"C3", "A9"}
    THEN <<"U+FFFD">> \o from_utf8_lossy[Tail(c)]
    ELSE <<c[1]>> \o from_utf8_lossy[Tail(c)]

\* char::is_whitespace on the pieces used here.
White == {" ", "\n", "\r"}

\* buffer.find("\n\n"): the first index, or 0 for None.
find[s \in Seq(STRING)] ==
    LET I == {i \in 1..(Len(s) - 1) : s[i] = "\n" /\ s[i + 1] = "\n"} IN
    IF I = {} THEN 0 ELSE CHOOSE i \in I : \A j \in I : i <= j

\* str::trim_end_matches('\r')
trim_end_matches[s \in Seq(STRING)] ==
    LET K == {k \in 0..Len(s) : \A j \in (k + 1)..Len(s) : s[j] = "\r"} IN
    SubSeq(s, 1, CHOOSE k \in K : \A j \in K : k <= j)

\* str::trim_start()
trim_start[s \in Seq(STRING)] ==
    LET K == {k \in 0..Len(s) : \A j \in 1..k : s[j] \in White} IN
    SubSeq(s, 1 + (CHOOSE k \in K : \A j \in K : k >= j), Len(s))

\* str::trim()
trim[s \in Seq(STRING)] ==
    LET t == trim_start[s]
        K == {k \in 0..Len(t) : \A j \in (k + 1)..Len(t) : t[j] \in White}
    IN  SubSeq(t, 1, CHOOSE k \in K : \A j \in K : k <= j)

\* str::lines(): cut at "\n", a "\r" before it belongs to the line ending.
lines[s \in Seq(STRING)] ==
    IF s = <<>> THEN <<>>
    ELSE LET N == {i \in DOMAIN s : s[i] = "\n"} IN
         IF N = {} THEN <<s>>
         ELSE LET i == CHOOSE i \in N : \A j \in N : i <= j
                  l == SubSeq(s, 1, i - 1)
              IN  <<IF l # <<>> /\ l[Len(l)] = "\r" THEN SubSeq(l, 1, Len(l) - 1) ELSE l>>
                      \o lines[SubSeq(s, i + 1, Len(s))]

\* The for loop over the lines ls of raw_event: the rest of every line that
\* starts with "data:", with its leading whitespace removed.
data_lines[ls \in Seq(Seq(STRING))] ==
    IF ls = <<>> THEN <<>>
    ELSE LET line == trim_end_matches[ls[1]] IN
         (IF line # <<>> /\ line[1] = "data:" THEN <<trim_start[Tail(line)]>> ELSE <<>>)
             \o data_lines[Tail(ls)]

\* data_lines.join("\n")
join[ls \in Seq(Seq(STRING))] ==
    IF ls = <<>> THEN <<>>
    ELSE IF Len(ls) = 1 THEN ls[1]
    ELSE ls[1] \o <<"\n">> \o join[Tail(ls)]

\* OpenAiStreamEvent
ResponseOutputTextDelta(delta) == [t |-> "ResponseOutputTextDelta", payload |-> delta]

ResponseCompleted == [t |-> "ResponseCompleted", payload |-> <<>>]

ResponseError(code, message) == [t |-> "ResponseError", payload |-> <<code, message>>]

NotSupported(s) == [t |-> "NotSupported", payload |-> s]

END == NotSupported(<<"[END]">>)

\* serde_json::from_str::<serde_json::Value>(s).is_ok(): whitespace around
\* the value is allowed.
IsJson(s) ==
    LET t == trim[s] IN
    \/ t \in {<<Json.completed>>, <<Json.error>>, <<Json.error_plain>>, <<Json.ping>>,
               <<Json.head, Json.tail>>, <<Json.head, "\n", Json.tail>>,
               <<Json.g_text>>, <<Json.g_finish>>, <<Json.g_mixed>>}
    \/ /\ Len(t) >= 2
       /\ t[1] = Json.open
       /\ t[Len(t)] = Json.close
       /\ \A j \in 2..(Len(t) - 1) : t[j] \in TextChars

\* serde_json::from_str::<OpenAiStreamEvent>(s): the event read (ok), or
\* that there is none.
from_str(s) ==
    LET t == trim[s]
        Parsed(v) == [ok |-> TRUE, v |-> v]
        NotParsed == [ok |-> FALSE, v |-> NotSupported(<<>>)]
    IN  IF ~IsJson(s) THEN NotParsed
        ELSE IF t[1] \in {Json.completed, Json.head} THEN Parsed(ResponseCompleted)
        ELSE IF t = <<Json.error>> THEN Parsed(ResponseError(SomeOf("rate_limit"), "slow"))
        ELSE IF t = <<Json.error_plain>> THEN Parsed(ResponseError(NoSome, "slow"))
        ELSE IF t[1] = Json.open THEN Parsed(ResponseOutputTextDelta(SubSeq(t, 2, Len(t) - 1)))
        ELSE NotParsed

\* Result<OpenAiStreamEvent>: an item of the channel.
OkItem(ev) == [ok |-> TRUE, ev |-> ev, details |-> ""]

ErrItem(details) == [ok |-> FALSE, ev |-> NotSupported(<<>>), details |-> details]

\* The event of one frame's data: the if .. else of the producer.
DecodeData(data) ==
    IF trim[data] = <<"[DONE]">> \/ trim[data] = <<>>
    THEN END
    ELSE LET p == from_str(data) IN IF p.ok THEN p.v ELSE NotSupported(data)

\* The event of the remainder flushed at the end of the body.
DecodeTrailing(trailing) ==
    IF trailing = <<"[DONE]">>
    THEN END
    ELSE LET p == from_str(trailing) IN IF p.ok THEN p.v ELSE NotSupported(trailing)

\* A producer that stops at the completion event only.
StopsProducer_CompletedOnly(ev) == ev.t = "ResponseCompleted"

\* matches!(event, ResponseCompleted { .. } | ResponseError { .. })
StopsProducer(ev) == ev.t \in {"ResponseCompleted", "ResponseError"}

\* One iteration of the while loop on a buffer that holds a blank line: the
\* frame cut off, what is left, and the event to send (none for a frame
\* without data lines).
CutFrame(buf) ==
    LET idx == find[buf]
        raw_event == SubSeq(buf, 1, idx - 1)
        dl == data_lines[lines[raw_event]]
    IN  [raw |-> raw_event,
         rest |-> SubSeq(buf, idx + 2, Len(buf)),
         sends |-> dl # <<>>,
         event |-> IF dl = <<>> THEN NotSupported(<<>>) ELSE DecodeData(join[dl])]

\* Codex::end_stream
end_stream(ev) == ev.t \in {"ResponseCompleted", "ResponseError"} \/ ev = END

\* response.output of the completion event: a message, a function call whose
\* arguments are not JSON, a reasoning item, a function call whose arguments
\* are JSON, and an item of another type.
OutItem(item, text, call_id, name, arguments) ==
    [item |-> item, text |-> text, call_id |-> call_id, name |-> name,
     arguments |-> arguments]

CompletedOutput ==
    << OutItem("OutputMessage", <<"H", "i">>, "", "", <<>>),
       OutItem("FunctionCall", <<>>, "c1", "f", <<"{", "\"a\":1">>),
       OutItem("Reasoning", <<"h", "m">>, "", "", <<>>),
       OutItem("FunctionCall", <<>>, "c2", "g", <<"{", "\"a\":1", "}">>),
       OutItem("WebSearchCall", <<>>, "", "", <<>>) >>

\* response.usage.unwrap_or_default().into()
CompletedUsage == SomeOf(<<"tokens", 7>>)

\* serde_json::Value::default()
JsonNull == [ok |-> TRUE, value |-> {"null"}]

\* The arms of `match &msg` inside the ResponseCompleted arm.
ContentOfItem(it) ==
    CASE it.item = "OutputMessage" ->
            Content("Text", it.text, NoSome, "", "", JsonNone)
      [] it.item = "Reasoning" ->
            Content("Reasoning", it.text, NoSome, "", "", JsonNone)
      [] OTHER ->
            LET p == ParseJson(it.arguments) IN
            Content("ToolCall", <<>>, NoSome, it.call_id, it.name,
                    IF p.ok THEN p ELSE JsonNull)

\* The for loop of the ResponseCompleted arm: one Done per item it knows.
DoneChunks(output) ==
    LET known == SelectSeq(output,
                    LAMBDA it : it.item \in {"OutputMessage", "Reasoning", "FunctionCall"})
    IN  [k \in DOMAIN known |-> Done(ContentOfItem(known[k]), CompletedUsage)]

\* The closure of codex_stream.map in Codex::stream_text.
MapEvent(item) ==
    IF ~item.ok THEN RetErr
    ELSE CASE item.ev.t = "ResponseOutputTextDelta" ->
                RetOk(<<Delta("Text", item.ev.payload)>>)
           [] item.ev.t = "ResponseCompleted" ->
                RetOk(DoneChunks(CompletedOutput))
           [] item.ev.t = "ResponseError" ->
                LET code == item.ev.payload[1] IN
                RetOk(<<Delta("Failed", <<IF code.some THEN code.v ELSE "unknown", ": ",
                                          item.ev.payload[2]>>)>>)
           [] OTHER ->
                RetOk(<<Delta("NotSupported",
                              <<"NotSupported(">> \o item.ev.payload \o <<")">>)>>)

\* A channel that hands out the newest item first.
ChanRecv_Newest(c) == [item |-> c[Len(c)], rest |-> SubSeq(c, 1, Len(c) - 1)]

\* rx.recv() on a channel that holds items: the oldest one.
ChanRecv(c) == [item |-> Head(c), rest |-> Tail(c)]

\* A sender that outlives the producer task.
SenderDropped_KeptAlive == FALSE

\* rx.recv() gives None: the channel is empty and the producer task, which
\* owns the only sender, has returned.
SenderDropped == ppc = "done"

\* send_and_stream has returned Ok: the producer task is spawned and the
\* caller holds the stream. The response body is one of W.
InitCodexOn(W) ==
    /\ provider = "Codex"
    /\ pc = "idle"
    /\ retry_count = 0
    /\ wait_time = 1
    /\ log = <<AttemptRec([resp |-> TRUE, status |-> 200], Ok(1, FALSE))>>
    /\ result = Ok(1, FALSE)
    /\ calls = 1
    /\ InitStreamState
    /\ InitNoUI
    /\ InitNoPair
    /\ InitNoBuild
    /\ wire \in W
    /\ pos = 0
    /\ buffer = <<>>
    /\ ppc = "read"
    /\ chan = <<>>
    /\ rx = "open"
    /\ emitted = <<>>
    /\ received = <<>>
    /\ delivered = <<>>
    /\ after_drop = [reads |-> 0, sends |-> 0]

InitCodex == InitCodexOn(WireTexts)

\* The while loop's condition on the buffer b.
AfterFrame(b) == IF find[b] # 0 THEN "drain" ELSE "read"

\* bytes.next() gives Some(Ok(chunk)): any number of the next pieces.
ReadChunk ==
    /\ ppc = "read"
    /\ \E n \in 1..(Len(wire) - pos) :
        /\ buffer' = buffer \o from_utf8_lossy[SubSeq(wire, pos + 1, pos + n)]
        /\ pos' = pos + n
    /\ ppc' = AfterFrame(buffer')
    /\ after_drop' = IF rx = "dropped"
                     THEN [after_drop EXCEPT !.reads = @ + 1]
                     ELSE after_drop
    /\ UNCHANGED <<wire, chan, rx, emitted, received, delivered>>
    /\ UNCHANGED <<retryVars, accVars, uiVars, pairVars, buildVars>>

\* One iteration of the while loop. The sends are the points where the
\* producer meets the consumer, which runs beside it.
DrainFrame ==
    /\ ppc = "drain"
    /\ \E f \in {CutFrame(buffer)} :
        /\ buffer' = f.rest
        /\ IF ~f.sends
           THEN /\ ppc' = AfterFrame(f.rest)
                /\ UNCHANGED <<chan, emitted, after_drop>>
           ELSE IF rx = "dropped"
           THEN /\ ppc' = "done"
                /\ after_drop' = [after_drop EXCEPT !.sends = @ + 1]
                /\ UNCHANGED <<chan, emitted>>
           ELSE /\ chan' = Append(chan, OkItem(f.event))
                /\ emitted' = Append(emitted, OkItem(f.event))
                /\ ppc' = IF StopsProducer(f.event) THEN "done" ELSE AfterFrame(f.rest)
                /\ UNCHANGED after_drop
    /\ UNCHANGED <<wire, pos, rx, received, delivered>>
    /\ UNCHANGED <<retryVars, accVars, uiVars, pairVars, buildVars>>

\* Variant: the item is sent and the producer goes on reading.
SendAndReturn_KeepsReading(item) ==
    /\ IF rx = "dropped"
       THEN /\ after_drop' = [after_drop EXCEPT !.sends = @ + 1]
            /\ UNCHANGED <<chan, emitted>>
       ELSE /\ chan' = Append(chan, item)
            /\ emitted' = Append(emitted, item)
            /\ UNCHANGED after_drop
    /\ ppc' = "read"

\* let _ = tx.send(item); return
SendAndReturn(item) ==
    /\ IF rx = "dropped"
       THEN /\ after_drop' = [after_drop EXCEPT !.sends = @ + 1]
            /\ UNCHANGED <<chan, emitted>>
       ELSE /\ chan' = Append(chan, item)
            /\ emitted' = Append(emitted, item)
            /\ UNCHANGED after_drop
    /\ ppc' = "done"

\* bytes.next() gives Some(Err(e)).
ReadErr ==
    /\ ppc = "read"
    /\ SendAndReturn(ErrItem("SSE body stream error"))
    /\ UNCHANGED <<wire, pos, buffer, rx, received, delivered>>
    /\ UNCHANGED <<retryVars, accVars, uiVars, pairVars, buildVars>>

\* bytes.next() gives None: the remainder, if any, is flushed.
ReadNone ==
    /\ ppc = "read"
    /\ pos = Len(wire)
    /\ IF trim[buffer] # <<>>
       THEN SendAndReturn(OkItem(DecodeTrailing(trim[buffer])))
       ELSE /\ ppc' = "done"
            /\ UNCHANGED <<chan, emitted, after_drop>>
    /\ UNCHANGED <<wire, pos, buffer, rx, received, delivered>>
    /\ UNCHANGED <<retryVars, accVars, uiVars, pairVars, buildVars>>

\* The caller polls the stream and the channel holds an item.
Recv ==
    /\ rx = "open"
    /\ chan # <<>>
    /\ LET r == ChanRecv(chan) IN
        /\ received' = Append(received, r.item)
        /\ delivered' = Append(delivered, MapEvent(r.item))
        /\ chan' = r.rest
    /\ UNCHANGED <<wire, pos, buffer, ppc, rx, emitted, after_drop>>
    /\ UNCHANGED <<retryVars, accVars, uiVars, pairVars, buildVars>>

\* The caller polls the stream and recv gives None: the stream ends.
RecvNone ==
    /\ rx = "open"
    /\ chan = <<>>
    /\ SenderDropped
    /\ rx' = "ended"
    /\ UNCHANGED <<wire, pos, buffer, ppc, chan, emitted, received, delivered, after_drop>>
    /\ UNCHANGED <<retryVars, accVars, uiVars, pairVars, buildVars>>

\* The caller drops the stream, and with it the receiver and what it holds.
Drop ==
    /\ rx = "open"
    /\ rx' = "dropped"
    /\ chan' = <<>>
    /\ UNCHANGED <<wire, pos, buffer, ppc, emitted, received, delivered, after_drop>>
    /\ UNCHANGED <<retryVars, accVars, uiVars, pairVars, buildVars>>

Producer == ReadChunk \/ DrainFrame \/ ReadErr \/ ReadNone

NextCodex ==
    \/ ReadChunk
    \/ DrainFrame
    \/ ReadErr
    \/ ReadNone
    \/ Recv
    \/ RecvNone
    \/ Drop

SpecCodex == InitCodex /\ [][NextCodex]_vars

\* The same stream when the runtime keeps polling the producer task and the
\* caller keeps polling the stream until it ends or is dropped.
SpecCodexFair ==
    /\ InitCodex
    /\ [][NextCodex]_vars
    /\ WF_vars(Producer)
    /\ WF_vars(Recv \/ RecvNone)

\* Frames of other layouts: a text delta, an event of no known shape, a text
\* delta with a two-byte character, a comment line alone, a completion event
\* on two data lines, and a text delta after a comment line.
Frames ==
    { <<"data:", " ", Json.open, "a", Json.close, "\n", "\n">>,
      <<"data:", " ", Json.ping, "\n", "\n">>,
      <<"data:", Json.open, "C3", "A9", Json.close, "\n", "\n">>,
      <<": keep-alive", "\n", "\n">>,
      <<"data:", Json.head, "\n", "data:", " ", Json.tail, "\n", "\n">>,
      <<": keep-alive", "\n", "data:", Json.open, "a", "a", Json.close, "\n", "\n">> }

\* What a body can end with when the server closes it inside a frame.
Remainders ==
    { <<>>,
      <<"data:", " ", Json.open, "a", Json.close>>,
      <<"data:", Json.completed, "\n">>,
      <<"data:", " ", "[DONE]">>,
      <<Json.open, "a", Json.close, "\n">> }

\* Bodies of up to MaxSegs such frames and a remainder.
FrameWires ==
    {Flatten(ss) \o r : ss \in UNION {[1..n -> Frames] : n \in 0..MaxSegs}, r \in Remainders}

\* The Codex stream over these bodies.
InitCodexFrames == InitCodexOn(FrameWires)

SpecCodexFrames == InitCodexFrames /\ [][NextCodex]_vars

----------------------------------------------------------------------------
(* Codex::send_and_stream as a whole: the request, the check of the status, *)
(* and on success the channel and the producer task.                        *)

\* The body of a response, whatever its status: an event-stream frame.
CallBodies ==
    { <<"data:", " ", Json.open, "a", Json.close, "\n", "\n">> }

\* What the request can meet: no response, or a response with a status and a
\* body; response.text() can fail to read the body of a non-2xx response.
CodexResponses ==
    {[resp |-> TRUE, status |-> s, readable |-> TRUE, body |-> b] :
        s \in {200, 429, 500}, b \in CallBodies}
    \cup {[resp |-> TRUE, status |-> s, readable |-> FALSE, body |-> <<>>] : s \in {429, 500}}
    \cup {[resp |-> FALSE, status |-> 0, readable |-> FALSE, body |-> <<>>]}

\* The details of the ApiError: the error of the send, the text of the
\* response, or the note that stands for a body that could not be read.
Details(h) ==
    IF ~h.resp THEN <<"SSE stream request failed">>
    ELSE IF h.readable THEN h.body
    ELSE <<"<failed to read body>">>

\* Variant: the status is not looked at and every response is streamed.
CodexResult_AnyStatus(h, n) ==
    IF h.resp THEN Ok(n, FALSE)
    ELSE [ok |-> FALSE, at |-> n, status_code |-> None, head_err |-> FALSE,
          details |-> Details(h)]

\* The Result of send_and_stream: Ok(stream), or the ApiError with its status
\* code and details.
CodexResult(h, n) ==
    LET r == CodexSendAndStream(h, n) IN
    IF r.ok THEN r
    ELSE [ok |-> FALSE, at |-> n, status_code |-> r.status_code, head_err |-> FALSE,
          details |-> Details(h)]

\* The provider is built and no call has been made.
InitCall ==
    /\ InitRetry
    /\ provider \in {"Codex", "Google"}

\* stream_text is called; the stream of an earlier call is over by then.
CallStreamText ==
    /\ ppc \in {"done", "none"}
    /\ rx # "open"
    /\ StreamText

\* One iteration of the retry loop of Codex::stream_text with the whole of
\* send_and_stream in it: an error is returned before the channel exists; on
\* a 2xx status the channel is created, the producer task spawned over the
\* bytes of the response and the receiver handed out as the stream.
CodexAttempt ==
    /\ pc = "loop"
    /\ provider = "Codex"
    /\ \E h \in CodexResponses :
        \E r \in {CodexResult(h, NumAttempts + 1)} :
            /\ log' = Append(log, AttemptRec(h, r))
            /\ IF r.ok
               THEN /\ result' = r
                    /\ pc' = "idle"
                    /\ wire' = h.body
                    /\ pos' = 0
                    /\ buffer' = <<>>
                    /\ ppc' = "read"
                    /\ chan' = <<>>
                    /\ rx' = "open"
                    /\ emitted' = <<>>
                    /\ received' = <<>>
                    /\ delivered' = <<>>
                    /\ after_drop' = [reads |-> 0, sends |-> 0]
                    /\ UNCHANGED retry_count
               ELSE IF RetryGuard(r, retry_count)
               THEN /\ retry_count' = retry_count + 1
                    /\ pc' = "sleep"
                    /\ UNCHANGED <<result, codexVars>>
               ELSE /\ result' = r
                    /\ pc' = "idle"
                    /\ UNCHANGED <<retry_count, codexVars>>
    /\ UNCHANGED <<provider, wait_time, calls>>
    /\ UNCHANGED <<accVars, uiVars, pairVars, buildVars>>


----------------------------------------------------------------------------
(* The Google stream, the decoders of whole events, and the turn of each    *)
(* adapter as its caller sees it.                                           *)

\* Result<reqwest_eventsource::Event, reqwest_eventsource::Error>: Open,
\* Message with its data, or Err.
Event(e, data) == [e |-> e, data |-> data]

\* serde_json::from_value::<GenerateContentResponse>(value) on the JSON
\* texts used here, wrapped in GoogleStreamEvent::Response: the candidates
\* of the response, each with the texts of its parts and whether it has a
\* finish reason.
GenerateContentResponse(data) ==
    LET t == trim[data]
        Candidate(parts, fin) == [parts |-> parts, finish_reason |-> fin]
        Parsed(c) == [ok |-> TRUE, v |-> [t |-> "Response", payload |-> c]]
    IN  CASE t = <<Json.g_text>> -> Parsed(<<Candidate(<<<<"H", "e">>>>, FALSE)>>)
          [] t = <<Json.g_finish>> -> Parsed(<<Candidate(<<<<"y">>>>, TRUE)>>)
          [] t = <<Json.g_mixed>> ->
                Parsed(<<Candidate(<<<<"a">>>>, TRUE), Candidate(<<<<"b">>>>, FALSE)>>)
          [] OTHER -> [ok |-> FALSE, v |-> NotSupported(<<>>)]

\* Google::parse_stream_sse
Google_parse_stream_sse(event) ==
    CASE event.e = "Open" -> OkItem(NotSupported(<<"{}">>))
      [] event.e = "Message" ->
            IF ~IsJson(event.data)
            THEN ErrItem("Invalid JSON in SSE data")
            ELSE LET r == GenerateContentResponse(event.data) IN
                 OkItem(IF r.ok THEN r.v ELSE NotSupported(event.data))
      [] OTHER -> ErrItem("e.to_string()")

\* Codex::parse_stream_sse
Codex_parse_stream_sse(event) ==
    CASE event.e = "Open" -> OkItem(NotSupported(<<"{}">>))
      [] event.e = "Message" ->
            IF trim[event.data] = <<"[DONE]">> \/ event.data = <<>>
            THEN OkItem(END)
            ELSE IF ~IsJson(event.data)
            THEN ErrItem("Invalid JSON in SSE data")
            ELSE LET p == from_str(event.data) IN
                 OkItem(IF p.ok THEN p.v ELSE NotSupported(event.data))
      [] OTHER -> ErrItem("e.to_string()")

\* Google::end_stream
Google_end_stream(ev) ==
    ev.t = "Response" /\ \E k \in DOMAIN ev.payload : ev.payload[k].finish_reason

\* The closure of google_stream.map in Google::stream_text: for each
\* candidate its text deltas, then its Done if it has a finish reason.
GoogleChunks(item) ==
    IF ~item.ok THEN RetErr
    ELSE IF item.ev.t = "Response"
    THEN LET cs == item.ev.payload
             OfCandidate(c) ==
                 [k \in DOMAIN c.parts |-> Delta("Text", c.parts[k])]
                     \o (IF c.finish_reason
                         THEN <<Done(Content("Text", Flatten(c.parts), NoSome, "", "", JsonNone),
                                     NoSome)>>
                         ELSE <<>>)
         IN  RetOk(Flatten([k \in DOMAIN cs |-> OfCandidate(cs[k])]))
    ELSE RetOk(<<Delta("NotSupported", item.ev.payload)>>)

\* The flag of the scan in Google::send_and_stream: set from the last item
\* the scan gave out.
ended ==
    /\ received # <<>>
    /\ LET res == received[Len(received)] IN ~res.ok \/ Google_end_stream(res.ev)

\* What the event source of a Google request yields after Open.
GoogleEvents ==
    {Event("Open", <<>>), Event("Err", <<>>)} \cup
    {Event("Message", d) : d \in {<<Json.g_text>>, <<Json.g_finish>>, <<Json.g_mixed>>,
                                   <<Json.ping>>, <<Json.bad>>, <<"[DONE]">>, <<>>}}

\* Google::send_and_stream has returned Ok; Google has no producer task and
\* no channel.
InitGoogle ==
    /\ provider = "Google"
    /\ pc = "idle"
    /\ retry_count = 0
    /\ wait_time = 1
    /\ log = <<AttemptRec([resp |-> FALSE, status |-> 0], Ok(1, FALSE))>>
    /\ result = Ok(1, FALSE)
    /\ calls = 1
    /\ InitStreamState
    /\ InitNoUI
    /\ InitNoPair
    /\ InitNoBuild
    /\ \E n \in 0..(MaxSegs + 1) : \E s \in [1..n -> GoogleEvents] :
            wire = <<Event("Open", <<>>)>> \o s
    /\ pos = 0
    /\ buffer = <<>>
    /\ ppc = "none"
    /\ chan = <<>>
    /\ rx = "open"
    /\ emitted = <<>>
    /\ received = <<>>
    /\ delivered = <<>>
    /\ after_drop = [reads |-> 0, sends |-> 0]

\* The caller polls the Google stream: the scan is given the next event,
\* parsed, and gives it out; the map of stream_text makes its chunks.
GooglePoll ==
    /\ provider = "Google"
    /\ rx = "open"
    /\ ~ended
    /\ pos < Len(wire)
    /\ LET res == Google_parse_stream_sse(wire[pos + 1]) IN
        /\ received' = Append(received, res)
        /\ delivered' = Append(delivered, GoogleChunks(res))
    /\ pos' = pos + 1
    /\ UNCHANGED <<wire, buffer, ppc, chan, rx, emitted, after_drop>>
    /\ UNCHANGED <<retryVars, accVars, uiVars, pairVars, buildVars>>

\* The caller polls the Google stream and it ends: the event source is
\* exhausted, or the scan is given one more event and returns None.
GoogleNone ==
    /\ provider = "Google"
    /\ rx = "open"
    /\ ended \/ pos = Len(wire)
    /\ pos' = IF pos < Len(wire) THEN pos + 1 ELSE pos
    /\ rx' = "ended"
    /\ UNCHANGED <<wire, buffer, ppc, chan, emitted, received, delivered, after_drop>>
    /\ UNCHANGED <<retryVars, accVars, uiVars, pairVars, buildVars>>

\* The response stream of ClaudeCode has ended: the last item it gave out
\* was an error, or an event for which Anthropic::end_stream holds (the
\* message-stop and the error event).
ClaudeCodeEnded == last_ev.t \in {"Err", "MessageStop", "Error"}

\* The caller polls the ClaudeCode stream, which has not ended, and the
\* closure of stream_text is given the next item.
ClaudeCodePoll ==
    /\ provider = "ClaudeCode"
    /\ ~ClaudeCodeEnded
    /\ \/ OnMessageStart
       \/ OnContentBlockStart
       \/ OnContentBlockDelta
       \/ OnContentBlockStop
       \/ OnMessageDelta
       \/ OnMessageStop
       \/ OnError
       \/ OnNotSupported
       \/ OnErr

\* A stream of any of the three adapters, established.
InitTurn == InitAcc \/ InitCodex \/ InitGoogle

NextTurn ==
    \/ ClaudeCodePoll
    \/ NextCodex
    \/ GooglePoll
    \/ GoogleNone

SpecTurn == InitTurn /\ [][NextTurn]_vars

\* What the event source of a Google call yields after Open, when the
\* handshake succeeds.
GoogleCallEvents ==
    {Event("Err", <<>>), Event("Message", <<Json.g_text>>),
     Event("Message", <<Json.g_finish>>), Event("Message", <<Json.bad>>)}

\* Google::stream_text: send_and_stream(..).await? with the scan and the map
\* over the event source. The event source opens lazily: a failed handshake
\* is its first item, an accepted one gives Open and then the events.
GoogleAttempt ==
    /\ pc = "loop"
    /\ provider = "Google"
    /\ \E h \in HttpOutcomes :
        \E r \in {GoogleSendAndStream(h, NumAttempts + 1)} :
            /\ log' = Append(log, AttemptRec(h, r))
            /\ result' = r
            /\ IF r.head_err
               THEN wire' = <<Event("Err", <<>>)>>
               ELSE \E n \in 0..MaxSegs : \E s \in [1..n -> GoogleCallEvents] :
                        wire' = <<Event("Open", <<>>)>> \o s
    /\ pc' = "idle"
    /\ pos' = 0
    /\ buffer' = <<>>
    /\ ppc' = "none"
    /\ chan' = <<>>
    /\ rx' = "open"
    /\ emitted' = <<>>
    /\ received' = <<>>
    /\ delivered' = <<>>
    /\ after_drop' = [reads |-> 0, sends |-> 0]
    /\ UNCHANGED <<provider, retry_count, wait_time, calls>>
    /\ UNCHANGED <<accVars, uiVars, pairVars, buildVars>>

NextCall ==
    \/ CallStreamText
    \/ CodexAttempt
    \/ Sleep
    \/ NextCodex
    \/ GoogleAttempt
    \/ GooglePoll
    \/ GoogleNone

SpecCall == InitCall /\ [][NextCall]_vars

\* The data payloads given to the decoders.
Payloads ==
    { <<"[DONE]">>, <<"[DONE]", " ">>, <<>>, <<Json.bad>>, <<Json.ping>>,
      <<Json.completed>>, <<Json.error>>, <<Json.error_plain>>,
      <<Json.open, "a", Json.close>>,
      <<Json.g_text>>, <<Json.g_finish>>, <<Json.g_mixed>> }

\* A decoder that knows `[DONE]` but not the empty payload.
DecodersOf_DoneOnly(p, d) ==
    IF p = "Codex"
    THEN <<Codex_parse_stream_sse(Event("Message", d)),
           OkItem(IF d = <<>> THEN NotSupported(d) ELSE DecodeData(d))>>
    ELSE <<Google_parse_stream_sse(Event("Message", d))>>

\* The outcomes of adapter p's decoders for a frame whose data is d:
\* parse_stream_sse and, for Codex, the decode of the producer.
DecodersOf(p, d) ==
    IF p = "Codex"
    THEN <<Codex_parse_stream_sse(Event("Message", d)), OkItem(DecodeData(d))>>
    ELSE <<Google_parse_stream_sse(Event("Message", d))>>

\* Up to MaxSegs payloads wait to be decoded by one adapter's decoders.
InitDecode ==
    /\ provider \in {"Codex", "Google"}
    /\ pc = "idle"
    /\ retry_count = 0
    /\ wait_time = 1
    /\ log = <<>>
    /\ result = NoResult
    /\ calls = 0
    /\ InitStreamState
    /\ InitNoUI
    /\ InitNoPair
    /\ InitNoBuild
    /\ wire \in UNION {[1..n -> Payloads] : n \in 0..MaxSegs}
    /\ pos = 0
    /\ buffer = <<>>
    /\ ppc = "none"
    /\ chan = <<>>
    /\ rx = "open"
    /\ emitted = <<>>
    /\ received = <<>>
    /\ delivered = <<>>
    /\ after_drop = [reads |-> 0, sends |-> 0]

\* The next payload is decoded.
Decode ==
    /\ pos < Len(wire)
    /\ received' = Append(received, DecodersOf(provider, wire[pos + 1]))
    /\ pos' = pos + 1
    /\ UNCHANGED <<wire, buffer, ppc, chan, rx, emitted, delivered, after_drop>>
    /\ UNCHANGED <<retryVars, accVars, uiVars, pairVars, buildVars>>

SpecDecode == InitDecode /\ [][Decode]_vars

----------------------------------------------------------------------------
(* The UI stream: StreamTextResponse::into_vercel_ui_stream, the filter_map *)
(* over the chunks of a response.                                           *)

\* A LanguageModelStreamChunkType value with what it carries.
ChunkType(type, payload) == [type |-> type, payload |-> payload]

\* The chunks the stream of a StreamTextResponse can yield.
UIInputs ==
    { ChunkType("Start", <<>>),
      ChunkType("Text", <<"H", "e">>),
      ChunkType("Text", <<"y">>),
      ChunkType("Reasoning", <<"h", "m">>),
      ChunkType("ToolCall", <<"{", "\"a\":1">>),
      ChunkType("End", <<"H", "e", "y">>),
      ChunkType("Failed", <<"rate_limit", ": ", "slow">>),
      ChunkType("Incomplete", <<"max_output_tokens">>),
      ChunkType("NotSupported", <<"{\"type\":\"ping\"}">>) }

\* VercelUIStreamOptions: the three flags and the optional id generator,
\* here a closure that returns its one id.
VercelUIStreamOptions ==
    [send_reasoning : BOOLEAN, send_start : BOOLEAN, send_finish : BOOLEAN,
     generate_message_id : {NoSome, SomeOf("custom-id")}]

\* format!("msg_{}", uuid::Uuid::new_v4().simple()): one of the ids the
\* random generator can give.
UuidIds == {"msg_1f", "msg_2e"}

\* A VercelUIStream item: its variant, the message id and its text (none
\* for TextStart and TextEnd; an Error has no id).
VercelUIStream(t, id, text) == [t |-> t, id |-> id, text |-> text]

\* Variant: an id is made anew for every text delta.
ui_chunk_IdPerDelta(o, id, chunk) ==
    CASE chunk.type = "Start" /\ o.send_start -> <<VercelUIStream("TextStart", id, <<>>)>>
      [] chunk.type = "Text" -> <<VercelUIStream("TextDelta", "msg_3d", chunk.payload)>>
      [] chunk.type = "Reasoning" /\ o.send_reasoning ->
            <<VercelUIStream("ReasoningDelta", id, chunk.payload)>>
      [] chunk.type = "ToolCall" ->
            <<VercelUIStream("ToolCallStart", id, <<"unknown", "unknown">>)>>
      [] chunk.type = "End" /\ o.send_finish -> <<VercelUIStream("TextEnd", id, <<>>)>>
      [] chunk.type \in {"Failed", "Incomplete"} ->
            <<VercelUIStream("Error", "", chunk.payload)>>
      [] OTHER -> <<>>

\* Variant: the reasoning flag is not looked at.
ui_chunk_ReasoningAlways(o, id, chunk) ==
    CASE chunk.type = "Start" /\ o.send_start -> <<VercelUIStream("TextStart", id, <<>>)>>
      [] chunk.type = "Text" -> <<VercelUIStream("TextDelta", id, chunk.payload)>>
      [] chunk.type = "Reasoning" -> <<VercelUIStream("ReasoningDelta", id, chunk.payload)>>
      [] chunk.type = "ToolCall" ->
            <<VercelUIStream("ToolCallStart", id, <<"unknown", "unknown">>)>>
      [] chunk.type = "End" /\ o.send_finish -> <<VercelUIStream("TextEnd", id, <<>>)>>
      [] chunk.type \in {"Failed", "Incomplete"} ->
            <<VercelUIStream("Error", "", chunk.payload)>>
      [] OTHER -> <<>>

\* The match of the closure given to filter_map: the item made of one chunk
\* (Some), or nothing (None). A ToolCallStart carries the tool call id and
\* the tool name "unknown".
ui_chunk(o, id, chunk) ==
    CASE chunk.type = "Start" /\ o.send_start -> <<VercelUIStream("TextStart", id, <<>>)>>
      [] chunk.type = "Text" -> <<VercelUIStream("TextDelta", id, chunk.payload)>>
      [] chunk.type = "Reasoning" /\ o.send_reasoning ->
            <<VercelUIStream("ReasoningDelta", id, chunk.payload)>>
      [] chunk.type = "ToolCall" ->
            <<VercelUIStream("ToolCallStart", id, <<"unknown", "unknown">>)>>
      [] chunk.type = "End" /\ o.send_finish -> <<VercelUIStream("TextEnd", id, <<>>)>>
      [] chunk.type \in {"Failed", "Incomplete"} ->
            <<VercelUIStream("Error", "", chunk.payload)>>
      [] OTHER -> <<>>

\* A StreamTextResponse holds a stream of up to MaxSegs chunks.
InitUI ==
    /\ provider \in Providers
    /\ pc = "idle"
    /\ retry_count = 0
    /\ wait_time = 1
    /\ log = <<>>
    /\ result = NoResult
    /\ calls = 1
    /\ InitStreamState
    /\ InitNoBuild
    /\ wire \in UNION {[1..n -> UIInputs] : n \in 0..MaxSegs}
    /\ pos = 0
    /\ buffer = <<>>
    /\ ppc = "none"
    /\ chan = <<>>
    /\ rx = "open"
    /\ emitted = <<>>
    /\ received = <<>>
    /\ delivered = <<>>
    /\ after_drop = [reads |-> 0, sends |-> 0]
    /\ options = "none"
    /\ message_id = "none"
    /\ ui_stream = <<>>
    /\ InitNoPair

\* into_vercel_ui_stream(options): the message id is made once, by the
\* caller's generator or from a random uuid.
IntoVercelUIStream ==
    /\ message_id = "none"
    /\ \E o \in VercelUIStreamOptions :
        /\ options' = o
        /\ IF o.generate_message_id.some
           THEN message_id' = o.generate_message_id.v
           ELSE message_id' \in UuidIds
    /\ UNCHANGED ui_stream
    /\ UNCHANGED <<retryVars, accVars, codexVars, buildVars, pairVars>>

\* The UI stream is polled and the inner stream gives its next chunk.
UIPoll ==
    /\ message_id # "none"
    /\ pos < Len(wire)
    /\ ui_stream' = ui_stream \o ui_chunk(options, message_id, wire[pos + 1])
    /\ pos' = pos + 1
    /\ UNCHANGED <<options, message_id>>
    /\ UNCHANGED <<wire, buffer, ppc, chan, rx, emitted, received, delivered, after_drop>>
    /\ UNCHANGED <<retryVars, accVars, buildVars, pairVars>>

NextUI ==
    \/ IntoVercelUIStream
    \/ UIPoll

SpecUI == InitUI /\ [][NextUI]_vars

----------------------------------------------------------------------------
(* The builders of Codex and ClaudeCode with a dynamic model, and the calls *)
(* on the provider they build.                                              *)

\* Model names a caller gives to model_name.
ModelNames == {"gpt-5.3-codex", "claude-opus"}

\* Values of the api_key setting: empty, blank, and a key.
ApiKeys == {<<>>, <<" ">>, <<"k", "e", "y">>}

\* Values of the base_url setting.
BaseUrls == {"https://api.example/v1/", "not a url"}

\* validate_base_url accepts the setting.
ValidBaseUrl(u) == u = "https://api.example/v1/"

\* CodexBuilder::api_key stores the trimmed key, ClaudeCodeBuilder::api_key
\* the key as given.
StoredKey(p, k) == IF p = "Codex" THEN trim[k] ELSE k

\* build(): the base URL is validated, an empty key (after trim, for Codex)
\* is a missing field, and the provider gets its options: for Codex options
\* made anew with M::MODEL_NAME, for ClaudeCode the options of the builder.
Built(p, b) ==
    IF ~ValidBaseUrl(b.base_url)
    THEN [ok |-> FALSE, error |-> "InvalidInput", model |-> ""]
    ELSE IF (IF p = "Codex" THEN trim[b.api_key] ELSE b.api_key) = <<>>
    THEN [ok |-> FALSE, error |-> "MissingField(api_key)", model |-> ""]
    ELSE [ok |-> TRUE, error |-> "",
          model |-> IF p = "Codex" THEN MODEL_NAME ELSE b.model]

\* Error::Other with the message of generate_text.
StreamingOnly == "Other(Codex provider supports streaming only; use stream_text())"

\* What a call of generate_text did: what it returned, the options the
\* provider stores after it and the request bodies it sent.
CallOutcome(ret, l, sent) == [ret |-> ret, lm_options |-> l, sent |-> sent]

\* Variant: the options are stored and a request is sent before the error.
generate_text_Sends(l, o) ==
    CallOutcome(StreamingOnly,
                Stored(l, o), <<Body(Stored(l, o))>>)

\* Codex::generate_text: the options are not looked at.
generate_text(l, o) ==
    CallOutcome(StreamingOnly,
                l, <<>>)

\* name()
name == lm_options.model

\* A builder with its defaults: the model of the type and the settings of
\* the environment.
InitBuild ==
    /\ provider \in {"Codex", "ClaudeCode"}
    /\ pc = "idle"
    /\ retry_count = 0
    /\ wait_time = 1
    /\ log = <<>>
    /\ result = NoResult
    /\ calls = 0
    /\ InitStreamState
    /\ InitNoStream
    /\ InitNoUI
    /\ InitNoPair
    /\ \E k \in {<<>>, <<"k", "e", "y">>} :
            builder = Builder("open", MODEL_NAME, k, "https://api.example/v1/")
    /\ lm_options = Options(FALSE, MODEL_NAME, NoSome, "")
    /\ requests = <<>>

\* builder.model_name(n)
BuilderModelName ==
    /\ builder.state = "open"
    /\ \E n \in ModelNames : builder' = [builder EXCEPT !.model = n]
    /\ UNCHANGED <<lm_options, requests>>
    /\ UNCHANGED <<retryVars, accVars, codexVars, uiVars, pairVars>>

\* builder.api_key(k)
BuilderApiKey ==
    /\ builder.state = "open"
    /\ \E k \in ApiKeys : builder' = [builder EXCEPT !.api_key = StoredKey(provider, k)]
    /\ UNCHANGED <<lm_options, requests>>
    /\ UNCHANGED <<retryVars, accVars, codexVars, uiVars, pairVars>>

\* builder.base_url(u)
BuilderBaseUrl ==
    /\ builder.state = "open"
    /\ \E u \in BaseUrls : builder' = [builder EXCEPT !.base_url = u]
    /\ UNCHANGED <<lm_options, requests>>
    /\ UNCHANGED <<retryVars, accVars, codexVars, uiVars, pairVars>>

\* builder.build(): the builder is consumed; it is kept here as it was.
Build ==
    /\ builder.state = "open"
    /\ \E r \in {Built(provider, builder)} :
        IF r.ok
        THEN /\ builder' = [builder EXCEPT !.state = "built"]
             /\ lm_options' = Options(TRUE, r.model, NoSome, "")
        ELSE /\ builder' = [builder EXCEPT !.state = "failed"]
             /\ UNCHANGED lm_options
    /\ UNCHANGED requests
    /\ UNCHANGED <<retryVars, accVars, codexVars, uiVars, pairVars>>

\* provider.generate_text(options) on a Codex provider.
GenerateText ==
    /\ provider = "Codex"
    /\ builder.state = "built"
    /\ pc = "idle"
    /\ \E o \in CallOptions :
        \E r \in {generate_text(lm_options, o)} :
            /\ result' = [call |-> "generate_text", options |-> o, ret |-> r.ret]
            /\ lm_options' = r.lm_options
            /\ requests' = requests \o r.sent
    /\ UNCHANGED builder
    /\ UNCHANGED <<provider, pc, retry_count, wait_time, log, calls>>
    /\ UNCHANGED <<accVars, codexVars, uiVars, pairVars>>

NextBuild ==
    \/ BuilderModelName
    \/ BuilderApiKey
    \/ BuilderBaseUrl
    \/ Build
    \/ GenerateText
    \/ StreamText
    \/ Attempt
    \/ Sleep

SpecBuild == InitBuild /\ [][NextBuild]_vars

----------------------------------------------------------------------------
(* Claims about establishment. *)

Is429(r) == ~r.ok /\ r.status_code.some /\ r.status_code.code = TOO_MANY_REQUESTS

\* The handshake of this attempt was answered with HTTP 429.
RateLimited(rec) ==
    /\ rec.t = "attempt"
    /\ \/ rec.http.resp /\ rec.http.status = TOO_MANY_REQUESTS
       \/ Is429(rec.r)

AttemptsBefore(j) == Cardinality({i \in 1..(j - 1) : log[i].t = "attempt"})

\* A wait follows entry j of the log: the loop is sleeping or has slept.
WaitFollows(j) ==
    \/ j = Len(log) /\ pc = "sleep"
    \/ j < Len(log) /\ log[j + 1].t = "sleep"

C2_BackoffSchedule ==
    (/\ UsesRetryLoop(provider)
     /\ pc = "idle"
     /\ result.ok
     /\ (NumAttempts - 1) \in 1..4)
    => LET k == NumAttempts - 1 IN
        /\ Len(log) = 2 * k + 1
        /\ Len(Sleeps) = k
        /\ \A i \in 1..k :
            /\ log[2 * i - 1].t = "attempt"
            /\ Is429(log[2 * i - 1].r)
            /\ log[2 * i].t = "sleep"
            /\ log[2 * i].d = 2 ^ (i - 1)
        /\ log[2 * k + 1].t = "attempt"
        /\ log[2 * k + 1].r = result
        /\ result.at = k + 1

C2_FourWaitsThenStream ==
    /\ provider = "Codex"
    /\ pc = "idle"
    /\ result.ok
    /\ NumAttempts = 5
    /\ Len(Sleeps) = 4

\* C3: an establishment failure other than HTTP 429 is returned at once: it is
\* the last entry of the call's log, no wait and no attempt follows it, and it
\* is the error stream_text returns, however many 429 retries came before.
C3_OtherFailureImmediate ==
    \A j \in DOMAIN log :
        (log[j].t = "attempt" /\ ~log[j].r.ok /\ ~Is429(log[j].r))
        => /\ j = Len(log)
           /\ pc = "idle"
           /\ result = log[j].r
           /\ result.at = NumAttempts

C3_FailureAfterRetries ==
    /\ provider = "Codex"
    /\ pc = "idle"
    /\ ~result.ok
    /\ result.status_code = Some(500)
    /\ result.at = 3
    /\ Len(Sleeps) = 2

----------------------------------------------------------------------------
(* Claims about the block accumulator. *)

HistOpened == {i \in Indices : hist[i].kind # "Absent"}

AtMessageStop == last_ev.t = "MessageStop" /\ last_out.res = "ok"

\* The chunks of the last return value are, in some order, one per opened
\* index, the chunk of index i satisfying P(chunk, i).
OnePerIndex(P(_, _)) ==
    \E o \in Orders(HistOpened) :
        /\ Len(last_out.chunks) = Len(o)
        /\ \A k \in DOMAIN o : P(last_out.chunks[k], o[k])

\* Section 4.3: which delta kinds an open block of kind k accepts.
DeltaFits(k, dk) ==
    \/ k = "Text" /\ dk = "TextDelta"
    \/ k = "Thinking" /\ dk \in {"ThinkingDelta", "SignatureDelta"}
    \/ k = "ToolUse" /\ dk = "ToolUseDelta"

\* The concatenated fragments of a ToolUse block are unusable as an input.
InvalidJson(s) == ~IsBlank(s) /\ ~ParseJson(s).ok

\* C5: a content-block-delta whose index has no preceding block-start makes
\* the chunk sequence end with a protocol-violation error value (an Err item),
\* and nothing is emitted after it.
C5_OrphanDeltaIsErrorValue ==
    (last_ev.t = "ContentBlockDelta" /\ last_ev.index \notin HistOpened)
    => last_out.res = "err"

\* C6: a delta whose kind does not match the open block at its index fails
\* the stream with an error; it is never answered with a chunk.
C6_MismatchFailsStream ==
    (/\ last_ev.t = "ContentBlockDelta"
     /\ last_ev.index \in HistOpened
     /\ ~DeltaFits(hist[last_ev.index].kind, last_ev.kind))
    => last_out.res = "err"

\* C7 as stated: at message-stop the Done chunks are one per opened index, the
\* kind of each matching the kind the block was opened with: text -> Text,
\* thinking and redacted-thinking -> Reasoning, tool-use -> ToolCall.
OpenedKindAsStated(i) ==
    CASE hist[i].kind = "Text" -> "Text"
      [] hist[i].kind \in {"Thinking", "RedactedThinking"} -> "Reasoning"
      [] OTHER -> "ToolCall"

C7_KindsAsStated ==
    AtMessageStop =>
        /\ Len(last_out.chunks) = Cardinality(HistOpened)
        /\ OnePerIndex(LAMBDA ch, i :
                ch.c = "Done" /\ ch.content.kind = OpenedKindAsStated(i))

\* C7 as amended: the same, except that a tool-use block gives a ToolCall only
\* when its concatenated fragments are blank or valid JSON, and a NotSupported
\* item otherwise.
OpenedKind(i) ==
    CASE hist[i].kind = "Text" -> "Text"
      [] hist[i].kind \in {"Thinking", "RedactedThinking"} -> "Reasoning"
      [] OTHER -> IF InvalidJson(hist[i].recv) THEN "NotSupported" ELSE "ToolCall"

C7_OneDonePerIndex ==
    AtMessageStop =>
        /\ Len(last_out.chunks) = Cardinality(HistOpened)
        /\ OnePerIndex(LAMBDA ch, i :
                ch.c = "Done" /\ ch.content.kind = OpenedKind(i))

C7_TwoBlocksFinalized ==
    /\ AtMessageStop
    /\ hist[0].kind = "ToolUse"
    /\ InvalidJson(hist[0].recv)
    /\ hist[1].kind = "Thinking"
    /\ hist[1].recv # <<>>
    /\ Len(last_out.chunks) = 2

\* C8: for a Text block, the Done chunk at message-stop carries the
\* concatenation, in arrival order, of the text deltas the block received, and
\* at every point the block's text is the concatenation of the Text delta
\* chunks emitted for it. (The block is the one its index was last opened with.)
C8_TextIsConcatenation ==
    /\ \A i \in Indices :
        hist[i].kind = "Text" => content_blocks[i].text = hist[i].recv
    /\ (/\ last_ev.t = "ContentBlockDelta"
        /\ last_ev.kind = "TextDelta"
        /\ last_ev.index \in HistOpened
        /\ hist[last_ev.index].kind = "Text")
       => last_out = RetOk(<<Delta("Text", last_ev.payload)>>)
    /\ AtMessageStop =>
        OnePerIndex(LAMBDA ch, i :
            hist[i].kind = "Text" =>
                /\ ch.c = "Done"
                /\ ch.content.kind = "Text"
                /\ ch.content.text = hist[i].recv)

C8_Hello ==
    /\ AtMessageStop
    /\ HistOpened = {0}
    /\ hist[0].kind = "Text"
    /\ hist[0].recv = <<"H", "e", "l", "l", "o">>
    /\ Len(last_out.chunks) = 1
    /\ last_out.chunks[1].content.text = <<"H", "e", "l", "l", "o">>

\* C9: a ToolUse block only appends the fragments, in arrival order, and
\* nothing is parsed before message-stop (a fragment goes out as it came, and
\* no Done chunk precedes message-stop); at message-stop the concatenation,
\* or {} when it is empty, is parsed as the tool call's input.
C9_ToolInputParsedAtStop ==
    /\ \A i \in Indices :
        hist[i].kind = "ToolUse" => content_blocks[i].text = hist[i].recv
    /\ (/\ last_ev.t = "ContentBlockDelta"
        /\ last_ev.kind = "ToolUseDelta"
        /\ last_ev.index \in HistOpened
        /\ hist[last_ev.index].kind = "ToolUse")
       => last_out = RetOk(<<Delta("ToolCall", last_ev.payload)>>)
    /\ last_ev.t # "MessageStop" =>
        \A k \in DOMAIN last_out.chunks : last_out.chunks[k].c # "Done"
    /\ AtMessageStop =>
        OnePerIndex(LAMBDA ch, i :
            (hist[i].kind = "ToolUse" /\ ~InvalidJson(hist[i].recv)) =>
                /\ ch.c = "Done"
                /\ ch.content.kind = "ToolCall"
                /\ ch.content.id = ToolId(i)
                /\ ch.content.name = ToolName(i)
                /\ ch.content.input.ok
                /\ ch.content.input.value =
                    IF hist[i].recv = <<>> THEN {} ELSE ParseJson(hist[i].recv).value)

C9_ToolCallScenario ==
    /\ AtMessageStop
    /\ HistOpened = {0}
    /\ hist[0].kind = "ToolUse"
    /\ hist[0].recv = <<"{", "\"a\":1", "}">>
    /\ Len(last_out.chunks) = 1
    /\ last_out.chunks[1].content.kind = "ToolCall"
    /\ last_out.chunks[1].content.id = "t1"
    /\ last_out.chunks[1].content.name = "f"
    /\ last_out.chunks[1].content.input.value = {<<"a", 1>>}

\* C10: a ToolUse block whose concatenated fragments are not valid JSON gives
\* at message-stop exactly one Done chunk, a NotSupported item carrying the raw
\* fragments; the stream does not error, and every other block's Done chunk is
\* the one it would be had that block's JSON been valid.
WithValidJson(blocks) ==
    [i \in Indices |->
        IF blocks[i].kind = "ToolUse" /\ InvalidJson(blocks[i].text)
        THEN [blocks[i] EXCEPT !.text = <<"{", "}">>]
        ELSE blocks[i]]

C10_InvalidJsonIsNotSupported ==
    (last_ev.t = "MessageStop") =>
        /\ last_out.res = "ok"
        /\ OnePerIndex(LAMBDA ch, i :
            IF hist[i].kind = "ToolUse" /\ InvalidJson(hist[i].recv)
            THEN /\ ch.c = "Done"
                 /\ ch.content.kind = "NotSupported"
                 /\ ch.content.text = <<"Invalid tool json: ">> \o hist[i].recv
                 /\ ch.usage = UsageInto(usage)
            ELSE ch = Collected(WithValidJson(content_blocks), usage, <<i>>)[1])

C10_InvalidBesideText ==
    /\ AtMessageStop
    /\ hist[0].kind = "ToolUse"
    /\ hist[0].recv = <<"}">>
    /\ hist[1].kind = "Text"
    /\ hist[1].recv = <<"H", "e", "l">>
    /\ Len(last_out.chunks) = 2

----------------------------------------------------------------------------
(* Claims about the Codex stream. *)

\* The items of the completion event for which the map emits a Done chunk.
KnownOutput ==
    SelectSeq(CompletedOutput,
              LAMBDA it : it.item \in {"OutputMessage", "Reasoning", "FunctionCall"})

\* s ends with t.
EndsWith(s, t) == Len(s) >= Len(t) /\ SubSeq(s, Len(s) - Len(t) + 1, Len(s)) = t

\* C11: in what the Codex map gives for a completion event, the Done chunk of
\* a function-call item whose arguments are not valid JSON is a NotSupported
\* content item carrying the raw arguments, not a tool call, and the Done
\* chunk of every other item is the one the map makes for that item.
C11_InvalidArgumentsNotSupported ==
    \A k \in DOMAIN delivered :
        (received[k].ok /\ received[k].ev.t = "ResponseCompleted") =>
            /\ delivered[k].res = "ok"
            /\ Len(delivered[k].chunks) = Len(KnownOutput)
            /\ \A j \in DOMAIN KnownOutput :
                LET it == KnownOutput[j]
                    ch == delivered[k].chunks[j]
                IN  IF it.item = "FunctionCall" /\ InvalidJson(it.arguments)
                    THEN /\ ch.c = "Done"
                         /\ ch.content.kind = "NotSupported"
                         /\ EndsWith(ch.content.text, it.arguments)
                    ELSE ch = Done(ContentOfItem(it), CompletedUsage)

\* a is the beginning of b.
IsPrefix(a, b) == Len(a) <= Len(b) /\ SubSeq(b, 1, Len(a)) = a

\* What the producer sends for a buffer it drains to the end: the events, what
\* is left in the buffer, and whether it returned at a stopping event.
RECURSIVE DrainAll(_)
DrainAll(buf) ==
    IF find[buf] = 0 THEN [events |-> <<>>, rest |-> buf, stopped |-> FALSE]
    ELSE LET f == CutFrame(buf) IN
         IF f.sends /\ StopsProducer(f.event)
         THEN [events |-> <<f.event>>, rest |-> f.rest, stopped |-> TRUE]
         ELSE LET d == DrainAll(f.rest) IN
              [d EXCEPT !.events = (IF f.sends THEN <<f.event>> ELSE <<>>) \o @]

\* The events of the frames of a body, in the order of the frames: what the
\* producer sends when the whole body arrives as one chunk.
EventsOfWhole(w) ==
    LET d == DrainAll(from_utf8_lossy[w]) IN
    IF d.stopped \/ trim[d.rest] = <<>>
    THEN d.events
    ELSE Append(d.events, DecodeTrailing(trim[d.rest]))

\* C12: in every interleaving of the producer and the consumer, what the
\* consumer has received is the beginning of what the producer has sent, and
\* together with what the channel holds it is all of it while the stream is
\* not dropped: nothing is reordered, duplicated or lost in between; and the
\* k-th event received is the event of the k-th frame of the byte stream.
C12_ReceivedInOrder ==
    /\ IsPrefix(received, emitted)
    /\ (rx # "dropped") => (received \o chan = emitted)
    /\ \A k \in DOMAIN received :
        received[k].ok =>
            /\ k <= Len(EventsOfWhole(wire))
            /\ received[k].ev.t = EventsOfWhole(wire)[k].t

\* The consumer has taken the first of two different events while the second
\* waits in the channel.
C12_ConsumerBehindProducer ==
    /\ rx = "open"
    /\ Len(received) = 1
    /\ Len(chan) = 1
    /\ received[1].ok /\ chan[1].ok
    /\ received[1].ev.t = "ResponseOutputTextDelta"
    /\ chan[1].ev.t = "ResponseCompleted"

\* C13: once the caller has dropped the stream the producer attempts at most
\* one more send and reads no further byte chunk from the transport. The
\* read that was already pending when the stream was dropped is not counted
\* against it: one chunk is allowed, a second is not.
C13_StopsAfterDrop ==
    (rx = "dropped") => (after_drop.sends <= 1 /\ after_drop.reads <= 1)

\* The transport has nothing more to give, has failed, or has delivered a
\* frame at which the producer stops.
BodyOver ==
    \/ pos = Len(wire)
    \/ (emitted # <<>> /\ ~emitted[Len(emitted)].ok)
    \/ DrainAll(buffer).stopped
    \/ (emitted # <<>> /\ emitted[Len(emitted)].ok /\ StopsProducer(emitted[Len(emitted)].ev))

\* The producer task has returned and the caller's stream is over: it has
\* ended, after every item sent was received, or the caller dropped it.
StreamOver ==
    /\ ppc = "done"
    /\ \/ rx = "ended" /\ chan = <<>> /\ received = emitted
       \/ rx = "dropped"

\* C14: when the byte stream ends, fails, or delivers a response-completed or
\* response-error frame, then, the producer task and the caller's polling
\* being scheduled fairly, the producer returns and the caller's sequence
\* ends, after every item that was sent has been received.
C14_EndsAfterDeliveringAll == BodyOver ~> StreamOver

\* The stream has ended at a completion event, received after a text delta.
C14_EndedAfterCompleted ==
    /\ ppc = "done"
    /\ rx = "ended"
    /\ Len(received) = 2
    /\ received = emitted
    /\ received[2].ok
    /\ received[2].ev.t = "ResponseCompleted"

----------------------------------------------------------------------------
(* Claims about the turn. *)

\* ret is an Ok item that holds a Done chunk.
HasDone(ret) == \E j \in DOMAIN ret.chunks : ret.chunks[j].c = "Done"

\* C15: a turn has one terminal signal. The Done chunks come from at most one
\* completion event, and no Delta or Done chunk is emitted after them: the
\* item that holds Done chunks is the last item delivered, and no other chunk
\* follows the Done chunks inside it.
C15_NothingAfterDone ==
    /\ \A k \in DOMAIN delivered :
          HasDone(delivered[k]) =>
              /\ k = Len(delivered)
              /\ delivered[k].chunks[Len(delivered[k].chunks)].c = "Done"
    /\ HasDone(last_out) => last_out.chunks[Len(last_out.chunks)].c = "Done"

\* One Ok item that holds one Failed delta with the text "<type>: <message>".
FailedItem(type, message) == RetOk(<<Delta("Failed", <<type, ": ", message>>)>>)

\* The type of a response-error event: its code, or "unknown" when the
\* vendor sent none.
TypeOf(ev) == IF ev.payload[1].some THEN ev.payload[1].v ELSE "unknown"

\* A vendor error event has been given to the caller.
ErrorDelivered ==
    \/ /\ provider = "Codex"
       /\ \E k \in DOMAIN received : received[k].ok /\ received[k].ev.t = "ResponseError"
    \/ /\ provider = "ClaudeCode"
       /\ last_ev.t = "Error"

\* C16: a vendor error event reaches the caller as one Ok item that holds one
\* Failed delta with the text "<type>: <message>", not as an Err and not as a
\* panic, and it is the last item: no item is delivered after it.
C16_ErrorIsLastFailedItem ==
    /\ [](/\ \A k \in DOMAIN received :
                (provider = "Codex" /\ received[k].ok /\ received[k].ev.t = "ResponseError") =>
                    /\ delivered[k] = FailedItem(TypeOf(received[k].ev),
                                                 received[k].ev.payload[2])
                    /\ k = Len(received)
          /\ (provider = "ClaudeCode" /\ last_ev.t = "Error") =>
                last_out = FailedItem(last_ev.payload[1], last_ev.payload[2]))
    /\ [][ErrorDelivered => UNCHANGED <<received, delivered, last_ev, last_out, nev, stream>>]_vars

\* The body holds an error frame and a text frame after it; the caller got
\* the Failed item and then the end of the stream, the text frame unsent.
C16_ErrorThenEnd ==
    /\ provider = "Codex"
    /\ rx = "ended"
    /\ Len(received) = 1
    /\ received[1].ev = ResponseError(SomeOf("rate_limit"), "slow")
    /\ delivered = <<FailedItem("rate_limit", "slow")>>
    /\ \E j \in DOMAIN wire : wire[j] = Json.open

----------------------------------------------------------------------------
(* Claims about the decoders. *)

\* The payload is `[DONE]` or empty.
Sentinel(d) == trim[d] = <<"[DONE]">> \/ d = <<>>

\* The outcome of a decoder that fails the stream with a decode error.
DecodeError == ErrItem("Invalid JSON in SSE data")

\* C17: a payload that is not valid JSON and not a sentinel fails the stream
\* with a decode error in every decoder (parse_stream_sse of Codex and of
\* Google, and the decode of the Codex producer): it is not made into an
\* unsupported event and it is not skipped.
C17_InvalidJsonIsDecodeError ==
    \A k \in DOMAIN received :
        (~Sentinel(wire[k]) /\ ~IsJson(wire[k])) =>
            \A j \in DOMAIN received[k] : received[k][j] = DecodeError

----------------------------------------------------------------------------
(* Claims about the Codex stream, continued. *)

\* C19: the end-of-stream marker is consumed inside the engine: the item
\* that carries it gives the caller no chunk, and it is the last item, so
\* that no frame after it produces a chunk.
C19_EndMarkerConsumed ==
    \A k \in DOMAIN received :
        received[k] = OkItem(END) =>
            /\ delivered[k].chunks = <<>>
            /\ k = Len(received)
            /\ chan = <<>>

\* C20: the events the producer emits depend on the bytes only, not on how
\* they are cut into chunks: when the producer has returned, not stopped by
\* a transport error or a dropped stream, what it has sent is what it sends
\* when the same bytes arrive as one chunk.
C20_SplitIndependent ==
    (/\ ppc = "done"
     /\ after_drop.sends = 0
     /\ \A k \in DOMAIN emitted : emitted[k].ok) =>
        [k \in DOMAIN emitted |-> emitted[k].ev] = EventsOfWhole(wire)

----------------------------------------------------------------------------
(* Claims about the frames of the Codex stream. *)

\* The producer has read the body to its end, found a remainder in the
\* buffer and sent an event for it: it has returned, not at a stopping event
\* of a frame, not at a transport error and not at a failed send.
FlushedRemainder ==
    /\ ppc = "done"
    /\ pos = Len(wire)
    /\ find[buffer] = 0
    /\ trim[buffer] # <<>>
    /\ after_drop.sends = 0
    /\ emitted # <<>>
    /\ emitted[Len(emitted)].ok
    /\ ~StopsProducer(emitted[Len(emitted)].ev)

\* C21: the event sent for the remainder at the end of the byte stream is the
\* event that the same remainder gives as a complete frame, that is, when a
\* blank line follows it.
C21_RemainderDecodedAsFrame ==
    FlushedRemainder =>
        LET f == CutFrame(buffer \o <<"\n", "\n">>) IN
        /\ f.sends
        /\ emitted[Len(emitted)].ev = f.event

----------------------------------------------------------------------------
(* Claims about the call of Codex::send_and_stream. *)

\* The attempt made by this step met a response with a non-2xx status.
NonSuccessAttempt ==
    /\ Len(log') = Len(log) + 1
    /\ log'[Len(log')].t = "attempt"
    /\ log'[Len(log')].http.resp
    /\ ~is_success(log'[Len(log')].http.status)

\* C22: a non-2xx initial response makes send_and_stream return an error that
\* carries the status code and the text of the response body; the step
\* creates no channel and starts no producer, so that no variable of the
\* stream changes, and as long as no later attempt succeeds no producer runs
\* and no receiver is open: no event of that response is sent or delivered.
C22_NonSuccessIsErrorBeforeStream ==
    /\ [][(provider = "Codex" /\ NonSuccessAttempt) =>
            LET a == log'[Len(log')] IN
            /\ ~a.r.ok
            /\ a.r.status_code = Some(a.http.status)
            /\ a.r.details = (IF a.http.readable THEN a.http.body
                              ELSE <<"<failed to read body>">>)
            /\ UNCHANGED codexVars]_vars
    /\ []((provider = "Codex" /\ log # <<>> /\ ~log[Len(log)].r.ok) =>
            (ppc = "done" /\ rx # "open" /\ chan = <<>>))

\* A 500 response whose body is an event-stream frame has been returned as
\* the error of the call, after an earlier call of the same provider streamed.
C22_ErrorResponseWithFrameBody ==
    /\ provider = "Codex"
    /\ pc = "idle"
    /\ calls = 2
    /\ log # <<>>
    /\ log[Len(log)].http.status = 500
    /\ log[Len(log)].http.body = <<"data:", " ", Json.open, "a", Json.close, "\n", "\n">>
    /\ result = log[Len(log)].r
    /\ ~result.ok
    /\ delivered # <<>>

----------------------------------------------------------------------------
(* Claims about transport errors inside an established stream. *)

\* The caller has been given an error item of the stream.
ErrReceived == \E k \in DOMAIN received : ~received[k].ok

\* The Codex producer has sent an error item.
ErrEmitted == \E k \in DOMAIN emitted : ~emitted[k].ok

----------------------------------------------------------------------------
(* Claims about NotSupported deltas. *)

\* The event is recognized and has no normalized meaning.
NoMeaning(ev) ==
    \/ ev.t \in {"ContentBlockStart", "ContentBlockStop", "MessageDelta"}
    \/ ev.t = "ContentBlockDelta" /\ ev.kind = "SignatureDelta"

\* C25: a NotSupported delta is emitted only for a payload that matched no
\* known event shape; a block-start, a block-stop, a message-delta and a
\* signature-delta give no chunk at all.
C25_NotSupportedOnlyForUnknown ==
    /\ (\E j \in DOMAIN last_out.chunks : last_out.chunks[j].type = "NotSupported") =>
            last_ev.t = "NotSupported"
    /\ (NoMeaning(last_ev) /\ last_out.res = "ok") => last_out.chunks = <<>>

----------------------------------------------------------------------------
(* Claims about the UI stream. *)

\* The inclusion policy: which chunks the caller asked to see.
Forwarded(o, chunk) ==
    \/ chunk.type \in {"Text", "ToolCall", "Failed", "Incomplete"}
    \/ chunk.type = "Start" /\ o.send_start
    \/ chunk.type = "End" /\ o.send_finish
    \/ chunk.type = "Reasoning" /\ o.send_reasoning

\* The variant of the UI item of a forwarded chunk.
VariantOf(type) ==
    CASE type = "Start" -> "TextStart"
      [] type = "Text" -> "TextDelta"
      [] type = "Reasoning" -> "ReasoningDelta"
      [] type = "ToolCall" -> "ToolCallStart"
      [] type = "End" -> "TextEnd"
      [] OTHER -> "Error"

\* The chunks polled so far that the policy forwards, in their order.
ForwardedSoFar ==
    SelectSeq(SubSeq(wire, 1, pos), LAMBDA c : Forwarded(options, c))

\* C30: the UI stream is the image, in order, of the chunks the policy
\* forwards: Start iff send_start, End iff send_finish, Reasoning iff
\* send_reasoning, Text always, NotSupported never, Failed and Incomplete as
\* Error items with the same text; deltas keep their text.
C30_PolicyAndOrder ==
    message_id # "none" =>
        /\ Len(ui_stream) = Len(ForwardedSoFar)
        /\ \A k \in DOMAIN ui_stream :
            LET c == ForwardedSoFar[k] IN
            /\ ui_stream[k].t = VariantOf(c.type)
            /\ c.type \in {"Text", "Reasoning", "Failed", "Incomplete"} =>
                    ui_stream[k].text = c.payload
        /\ \A k \in DOMAIN ui_stream : ui_stream[k].t # "NotSupported"

\* A Reasoning chunk and then a Text chunk were polled with send_reasoning
\* off: the UI stream holds the text delta alone.
C30_ReasoningHeldBack ==
    /\ message_id # "none"
    /\ ~options.send_reasoning
    /\ pos = 2
    /\ wire[1].type = "Reasoning"
    /\ wire[2].type = "Text"
    /\ Len(ui_stream) = 1
    /\ ui_stream[1].t = "TextDelta"

\* The UI items made of the chunks of one item of the provider's stream.
UIItemsOf(o, id, chunks) ==
    Flatten([k \in DOMAIN chunks |-> ui_chunk(o, id, chunks[k])])

\* C24: the content of a vendor thinking delta reaches the caller as one
\* reasoning delta when send_reasoning is set, and in no item at all when it
\* is not set.
C24_ReasoningIffRequested ==
    (last_ev.t = "ContentBlockDelta" /\ last_ev.kind = "ThinkingDelta"
        /\ last_out.res = "ok") =>
        \A o \in VercelUIStreamOptions :
            UIItemsOf(o, "m", last_out.chunks) =
                IF o.send_reasoning
                THEN <<VercelUIStream("ReasoningDelta", "m", last_ev.payload)>>
                ELSE <<>>

----------------------------------------------------------------------------
(* Claims about the builders and generate_text. *)

\* C26: after model_name(n) and a successful build(), name() is n and n is
\* the model of every request the provider sends; without model_name the
\* builder holds the model of the type.
C26_BuiltModelIsNamed ==
    builder.state = "built" =>
        /\ name = builder.model
        /\ \A j \in DOMAIN requests : requests[j].model = builder.model

\* The step is a call of generate_text: the result is its outcome.
GenerateTextReturned ==
    /\ "call" \in DOMAIN result'
    /\ result' # result

C28_OneEventPerDataFrame ==
    LET d == DrainAll(from_utf8_lossy[wire]) IN
    /\ \A k \in DOMAIN emitted :
            (emitted[k].ok /\ k <= Len(d.events)) => emitted[k].ev = d.events[k]
    /\ (ppc = "done" /\ pos = Len(wire) /\ after_drop.sends = 0
            /\ \A k \in DOMAIN emitted : emitted[k].ok) =>
            Len(emitted) >= Len(d.events)

\* C29: a frame whose data is well-formed JSON of no known event shape gives
\* the caller one item that holds one NotSupported delta with the payload as
\* it was sent; the stream goes on after it.
C29_UnknownEventVerbatim ==
    \A k \in DOMAIN received :
        received[k] = OkItem(NotSupported(<<Json.ping>>)) =>
            delivered[k] = RetOk(<<Delta("NotSupported", <<Json.ping>>)>>)

----------------------------------------------------------------------------
(* Claims about single events of the block accumulator. *)

\* The closure was given a block-stop event in this step.
BlockStopStep == nev' = nev + 1 /\ last_ev'.t = "ContentBlockStop"

\* What message-stop makes of the block at index i, told from the history
\* since the index was last opened.
FinalizedFromHistory(i) ==
    Finalize(Block(hist[i].kind,
                   IF hist[i].kind = "RedactedThinking" THEN RedactedData ELSE hist[i].recv,
                   hist[i].sig, i))

\* C32: a block-stop event leaves every block, the set of indices and the
\* usage as they were and emits no Done chunk; at message-stop every opened
\* block, stopped or not, is finalized with the content it has.
C32_BlockStopChangesNothing ==
    /\ [][BlockStopStep =>
            /\ content_blocks' = content_blocks
            /\ usage' = usage
            /\ stream' = stream
            /\ last_out'.res = "ok"
            /\ \A k \in DOMAIN last_out'.chunks : last_out'.chunks[k].c # "Done"]_vars
    /\ [](AtMessageStop =>
            /\ Opened = HistOpened
            /\ OnePerIndex(LAMBDA ch, i :
                    ch.c = "Done" /\ ch.content = Finalize(content_blocks[i])))

C32_StopOfFilledBlock ==
    /\ last_ev = Ev("ContentBlockStop", 0, "", <<>>)
    /\ last_out = RetOk(unsupported("ContentBlockStop"))
    /\ hist[0].kind = "Text"
    /\ content_blocks[0].text = <<"H", "e", "l">>
    /\ usage = SomeOf(7)

\* The closure was given a signature-delta for an open Thinking block.
SignatureStep ==
    /\ nev' = nev + 1
    /\ last_ev'.t = "ContentBlockDelta"
    /\ last_ev'.kind = "SignatureDelta"
    /\ content_blocks[last_ev'.index].kind = "Thinking"

\* C33: a signature-delta on an open Thinking block sets the block's
\* signature and changes neither its thinking text nor any other block; at
\* message-stop the Reasoning item of a Thinking block carries the last
\* signature the block received, and none when it received none.
C33_SignatureSetNotAppended ==
    /\ [][SignatureStep =>
            content_blocks' =
                [content_blocks EXCEPT ![last_ev'.index].signature = SomeOf(last_ev'.payload)]]_vars
    /\ [](AtMessageStop =>
            OnePerIndex(LAMBDA ch, i :
                hist[i].kind = "Thinking" =>
                    /\ ch.c = "Done"
                    /\ ch.content.kind = "Reasoning"
                    /\ ch.content.text = hist[i].recv
                    /\ ch.content.signature = hist[i].sig))

C33_SignedAndUnsignedThinking ==
    /\ AtMessageStop
    /\ hist[0].kind = "Thinking"
    /\ hist[0].sig = SomeOf(<<"s", "g">>)
    /\ hist[1].kind = "Thinking"
    /\ hist[1].sig = NoSome
    /\ Len(last_out.chunks) = 2
    /\ \E k \in 1..2 : last_out.chunks[k].content.signature = SomeOf(<<"s", "g">>)
    /\ \E k \in 1..2 : last_out.chunks[k].content.signature = NoSome

\* The closure was given a block-start event in this step.
BlockStartStep == nev' = nev + 1 /\ last_ev'.t = "ContentBlockStart"

\* C36: a block-start puts a fresh block of the new kind at its index,
\* whether or not the index held a block: what the replaced block had
\* accumulated is in no Done chunk, and message-stop yields one item per
\* distinct index, made of what the index received since it was last opened.
C36_RestartReplacesBlock ==
    /\ [][BlockStartStep =>
            content_blocks' =
                [content_blocks EXCEPT ![last_ev'.index] =
                    Block(last_ev'.kind,
                          IF last_ev'.kind = "RedactedThinking" THEN last_ev'.payload ELSE <<>>,
                          NoSome, last_ev'.index)]]_vars
    /\ [](AtMessageStop =>
            /\ Len(last_out.chunks) = Cardinality(HistOpened)
            /\ OnePerIndex(LAMBDA ch, i :
                    ch.c = "Done" /\ ch.content = FinalizedFromHistory(i)))

C36_RestartedTextBlock ==
    /\ AtMessageStop
    /\ HistOpened = {0}
    /\ hist[0].kind = "Thinking"
    /\ hist[0].prev = SomeOf(<<"H", "e", "l">>)
    /\ hist[0].recv = <<"h", "m">>
    /\ Len(last_out.chunks) = 1
    /\ last_out.chunks[1].content.kind = "Reasoning"
    /\ last_out.chunks[1].content.text = <<"h", "m">>

\* The opened indices in ascending order.
Ascending ==
    CHOOSE o \in Orders(Opened) : \A a, b \in DOMAIN o : a < b => o[a] < o[b]

\* C35: the chunks are a function of the events; in particular the Done
\* chunks of a message-stop come in ascending order of block index.
C35_DoneInAscendingOrder ==
    AtMessageStop => last_out.chunks = Collected(content_blocks, usage, Ascending)

----------------------------------------------------------------------------
(* Claims about the text of the Google Done chunk. *)

\* The chunks of the first k items handed to the caller, in order.
ChunksUpTo(k) ==
    Flatten([m \in 1..k |-> IF delivered[m].res = "ok" THEN delivered[m].chunks ELSE <<>>])

\* The concatenation of the Text delta payloads among the chunks.
TextOf(chunks) ==
    Flatten([m \in DOMAIN chunks |->
                IF chunks[m].c = "Delta" /\ chunks[m].type = "Text"
                THEN chunks[m].payload ELSE <<>>])

\* Every response received so far has one candidate.
SingleCandidate ==
    \A k \in DOMAIN received :
        (received[k].ok /\ received[k].ev.t = "Response") => Len(received[k].ev.payload) = 1

\* C38: the text of the Google Done chunk is the concatenation, in order, of
\* all Text delta payloads emitted for the candidate during the stream.
C38_DoneTextIsAllDeltas ==
    (provider = "Google" /\ SingleCandidate) =>
        \A k \in DOMAIN delivered :
            delivered[k].res = "ok" =>
                \A j \in DOMAIN delivered[k].chunks :
                    delivered[k].chunks[j].c = "Done" =>
                        delivered[k].chunks[j].content.text = TextOf(ChunksUpTo(k))

----------------------------------------------------------------------------
(* Claims about the line endings of the Codex stream. *)

\* The frames of a body whose lines end in LF: a text delta, a frame of two
\* data lines and the completion event.
LfFrames ==
    { <<"data:", " ", Json.open, "a", Json.close, "\n", "\n">>,
      <<"data:", Json.head, "\n", "data:", " ", Json.tail, "\n", "\n">>,
      <<"data:", Json.completed, "\n", "\n">> }

\* The same bytes with every line ended by CRLF.
RECURSIVE Crlf(_)
Crlf(w) ==
    IF w = <<>> THEN <<>>
    ELSE (IF w[1] = "\n" THEN <<"\r", "\n">> ELSE <<w[1]>>) \o Crlf(Tail(w))

\* The same bytes with every line ended by LF.
Lf(w) == SelectSeq(w, LAMBDA p : p # "\r")

\* Bodies of up to MaxSegs frames, all of one line ending.
CrlfWires ==
    LET Bodies == {Flatten(ss) : ss \in UNION {[1..n -> LfFrames] : n \in 0..MaxSegs}}
    IN  Bodies \cup {Crlf(b) : b \in Bodies}

\* The Codex stream over these bodies.
InitCodexCrlf == InitCodexOn(CrlfWires)

SpecCodexCrlf == InitCodexCrlf /\ [][NextCodex]_vars

\* C37: a body whose lines end in CRLF gives the events of the same body with
\* LF line endings: when the producer has read the body and returned, not
\* stopped by a transport error or a dropped stream, it has sent the events of
\* the frames of the LF body.
C37_CrlfSameAsLf ==
    (/\ ppc = "done"
     /\ after_drop.sends = 0
     /\ \A k \in DOMAIN emitted : emitted[k].ok) =>
        [k \in DOMAIN emitted |-> emitted[k].ev] = EventsOfWhole(Lf(wire))

----------------------------------------------------------------------------
(* Claims about the message id of the UI stream. *)

\* The variants of VercelUIStream that this conversion makes with an id.
WithId == {"TextStart", "TextDelta", "ReasoningDelta", "ToolCallStart", "TextEnd"}

\* C39: into_vercel_ui_stream makes the message id once, before the stream
\* gives any item, from the caller's generator when there is one; the id
\* never changes afterwards, and every item of a variant with an id carries it.
C39_OneMessageId ==
    /\ [](message_id = "none" => ui_stream = <<>>)
    /\ [](message_id # "none" =>
            /\ options.generate_message_id.some =>
                    message_id = options.generate_message_id.v
            /\ \A k \in DOMAIN ui_stream :
                    ui_stream[k].t \in WithId => ui_stream[k].id = message_id)
    /\ [][message_id # "none" => (message_id' = message_id /\ options' = options)]_vars

C39_TwoItemsOneId ==
    /\ message_id = "custom-id"
    /\ Len(ui_stream) = 2
    /\ ui_stream[1] = VercelUIStream("TextStart", "custom-id", <<>>)
    /\ ui_stream[2].t = "TextDelta"
    /\ ui_stream[2].id = "custom-id"

----------------------------------------------------------------------------
(* Claims about the usage and about concurrent streams. *)

\* The closure was given a message-delta event in this step.
MessageDeltaStep == nev' = nev + 1 /\ last_ev'.t = "MessageDelta"

\* C31: the usage kept by a stream is none at first and is set by each
\* message-delta and by nothing else, so that it is always the usage of the
\* last message-delta the stream received; at message-stop every chunk is a
\* Done that carries that usage, or none when no message-delta was received.
C31_DoneCarriesLastUsage ==
    /\ [](nev = 0 => usage = NoSome)
    /\ [][IF MessageDeltaStep
          THEN usage' = SomeOf(last_ev'.payload[1])
          ELSE usage' = usage]_vars
    /\ [](AtMessageStop =>
            \A k \in DOMAIN last_out.chunks :
                /\ last_out.chunks[k].c = "Done"
                /\ last_out.chunks[k].usage =
                        IF usage.some THEN SomeOf(<<"tokens", usage.v>>) ELSE NoSome)

C31_TwoDonesOneUsage ==
    /\ AtMessageStop
    /\ nev = 5
    /\ usage = SomeOf(9)
    /\ Len(last_out.chunks) = 2
    /\ last_out.chunks[1].usage = SomeOf(<<"tokens", 9>>)
    /\ last_out.chunks[2].usage = SomeOf(<<"tokens", 9>>)

\* A value of the state that does not depend on the order of the walk.
RECURSIVE AloneState(_)
AloneState(evs) ==
    IF evs = <<>> THEN DefaultState
    ELSE scan(AloneState(SubSeq(evs, 1, Len(evs) - 1)), evs[Len(evs)], <<>>).state

\* What the closure of a stream that is given the events evs, and nothing
\* else happens, can return for the k-th of them.
AloneRets(evs, k) ==
    LET st == AloneState(SubSeq(evs, 1, k - 1)) IN
    {scan(st, evs[k], o).ret : o \in Orders(OpenedIn(st.content_blocks))}

\* The attempts of a call that were answered with 429.
Retried(c) ==
    {k \in DOMAIN c.attempts :
        /\ ~c.attempts[k].ok
        /\ c.attempts[k].status_code.some
        /\ c.attempts[k].status_code.code = TOO_MANY_REQUESTS}

\* The call c and its stream are what the call's own attempts and the
\* stream's own events make them.
Alone(c) ==
    /\ c.retry_count = Cardinality(Retried(c))
    /\ c.wait_time = 2 ^ (IF c.pc = "sleep" THEN c.retry_count - 1 ELSE c.retry_count)
    /\ c.pc \in {"open", "panicked"} => c.state = AloneState(c.events)
    /\ Len(c.chunks) = Len(c.events)
    /\ \A k \in DOMAIN c.chunks : c.chunks[k] \in AloneRets(c.events, k)

====
